---- MODULE Spec2Model ----
(***************************************************************************)
(* Model of the site-traversal engine of SiteMapper:                       *)
(* WebsiteCrawler.crawlWebsite, crawlWebsiteWithRealTimeUpdates,           *)
(* parseSitemap, resolveUrl and shouldCrawlUrl                             *)
(* (src/server/services/crawler.ts).                                       *)
(*                                                                         *)
(* A URL string is a record [k, o, p, h]: k is its kind ("abs" an absolute *)
(* URL, "rel" a path-relative reference, "bad" a string the URL parser     *)
(* rejects, "empty" the empty string), o its origin, p its path and h its  *)
(* fragment, both as sequences of one-character strings.  Two records are  *)
(* equal exactly when the two strings are equal.                           *)
(***************************************************************************)
EXTENDS Integers, Sequences, FiniteSets, TLC

\* ------------------------------------------------------------------ bounds
MaxPagesBound == 3

\* ------------------------------------------------------- program constants
MAX_SITEMAP_DEPTH == 2
MAX_CHILD_SITEMAPS == 5
SITEMAP_PAGE_LIMIT == 500

\* ------------------------------------------------------------ string tools
Min(a, b) == IF a <= b THEN a ELSE b

Take(s, n) == SubSeq(s, 1, Min(n, Len(s)))

StartsWith(s, pre) ==
    /\ Len(pre) <= Len(s)
    /\ SubSeq(s, 1, Len(pre)) = pre

EndsWith(s, suf) ==
    /\ Len(suf) <= Len(s)
    /\ SubSeq(s, Len(s) - Len(suf) + 1, Len(s)) = suf

LowerChar(c) ==
    CASE c = "A" -> "a"
      [] c = "B" -> "b"
      [] c = "C" -> "c"
      [] c = "D" -> "d"
      [] c = "E" -> "e"
      [] c = "F" -> "f"
      [] c = "G" -> "g"
      [] c = "H" -> "h"
      [] c = "I" -> "i"
      [] c = "J" -> "j"
      [] c = "K" -> "k"
      [] c = "L" -> "l"
      [] c = "M" -> "m"
      [] c = "N" -> "n"
      [] c = "O" -> "o"
      [] c = "P" -> "p"
      [] c = "Q" -> "q"
      [] c = "R" -> "r"
      [] c = "S" -> "s"
      [] c = "T" -> "t"
      [] c = "U" -> "u"
      [] c = "V" -> "v"
      [] c = "W" -> "w"
      [] c = "X" -> "x"
      [] c = "Y" -> "y"
      [] c = "Z" -> "z"
      [] OTHER -> c

ToLowerCase(s) == [i \in 1..Len(s) |-> LowerChar(s[i])]

\* ------------------------------------------------------------- URL strings
OA == "https://a.com"
OB == "https://b.org"

Abs(o, p) == [k |-> "abs", o |-> o, p |-> p, h |-> <<>>]
AbsH(o, p, h) == [k |-> "abs", o |-> o, p |-> p, h |-> h]
Rel(p) == [k |-> "rel", o |-> "", p |-> p, h |-> <<>>]
RelH(p, h) == [k |-> "rel", o |-> "", p |-> p, h |-> h]
BadStr == [k |-> "bad", o |-> "", p |-> <<"[">>, h |-> <<>>]
EmptyStr == [k |-> "empty", o |-> "", p |-> <<>>, h |-> <<>>]

\* new URL(s) without a base: only an absolute URL parses
Parses(s) == s.k = "abs"

\* new URL(s).href: the serialisation gives an empty path the path "/"
Href(s) == [s EXCEPT !.p = IF s.p = <<>> THEN <<"/">> ELSE s.p]

\* new URL(s).origin
Origin(s) == s.o

\* new URL(s).pathname
Pathname(s) == Href(s).p

\* new URL(href, base) succeeds
ParsesWithBase(href, base) ==
    \/ href.k = "abs"
    \/ href.k \in {"rel", "empty"} /\ Parses(base)

\* resolveUrl(href, currentUrl)
resolveUrl(href, currentUrl) ==
    IF ~ParsesWithBase(href, currentUrl) THEN EmptyStr
    ELSE CASE href.k = "abs" -> Href(href)
           [] href.k = "rel" -> Href(AbsH(Origin(currentUrl), href.p, href.h))
           [] OTHER -> Href(AbsH(Origin(currentUrl), currentUrl.p, <<>>))

skipExtensions ==
    << <<".", "p", "d", "f">>, <<".", "j", "p", "g">>,
       <<".", "j", "p", "e", "g">>, <<".", "p", "n", "g">>,
       <<".", "g", "i", "f">>, <<".", "s", "v", "g">>,
       <<".", "c", "s", "s">>, <<".", "j", "s">>,
       <<".", "x", "m", "l">>, <<".", "t", "x", "t">>,
       <<".", "i", "c", "o">> >>

\* the list without its first entry
skipPathsWithoutWpAdmin ==
    << <<"/", "a", "d", "m", "i", "n">>,
       <<"/", "a", "p", "i">>,
       <<"/", "w", "p", "-", "c", "o", "n", "t", "e", "n", "t">>,
       <<"/", "w", "p", "-", "i", "n", "c", "l", "u", "d", "e", "s">> >>

skipPaths ==
    << <<"/", "w", "p", "-", "a", "d", "m", "i", "n">>,
       <<"/", "a", "d", "m", "i", "n">>,
       <<"/", "a", "p", "i">>,
       <<"/", "w", "p", "-", "c", "o", "n", "t", "e", "n", "t">>,
       <<"/", "w", "p", "-", "i", "n", "c", "l", "u", "d", "e", "s">> >>

\* shouldCrawlUrl with the origin test left out
shouldCrawlUrlAnyOrigin(url, baseUrl) ==
    IF url.k = "empty" THEN FALSE
    ELSE IF ~Parses(url) THEN FALSE
    ELSE LET path == ToLowerCase(Pathname(url))
         IN  /\ url.h = <<>>
             /\ ~\E i \in 1..Len(skipExtensions) : EndsWith(path, skipExtensions[i])
             /\ ~\E i \in 1..Len(skipPaths) : StartsWith(path, skipPaths[i])

\* shouldCrawlUrl(url), with this.baseUrl passed in
shouldCrawlUrl(url, baseUrl) ==
    IF url.k = "empty" THEN FALSE
    ELSE IF ~Parses(url) THEN FALSE
    ELSE LET path == ToLowerCase(Pathname(url))
         IN  /\ Origin(url) = baseUrl
             /\ url.h = <<>>
             /\ ~\E i \in 1..Len(skipExtensions) : EndsWith(path, skipExtensions[i])
             /\ ~\E i \in 1..Len(skipPaths) : StartsWith(path, skipPaths[i])

\* ----------------------------------------------------------- the web sites
\* Paths used by the sites below.
PNone == <<>>
PRoot == <<"/">>
P1 == <<"/", "p", "1">>
P2 == <<"/", "p", "2">>
PPdf == <<"/", "f", ".", "P", "D", "F">>
PAdmin == <<"/", "w", "p", "-", "a", "d", "m", "i", "n", "/", "e">>
PSitemap == <<"/", "s", "i", "t", "e", "m", "a", "p", ".", "x", "m", "l">>
PSitemapIndex ==
    <<"/", "s", "i", "t", "e", "m", "a", "p", "_", "i", "n", "d", "e", "x", ".", "x", "m", "l">>
PSitemapDashIndex ==
    <<"/", "s", "i", "t", "e", "m", "a", "p", "-", "i", "n", "d", "e", "x", ".", "x", "m", "l">>
PSitemaps == <<"/", "s", "i", "t", "e", "m", "a", "p", "s", ".", "x", "m", "l">>
PC1 == <<"/", "c", "1", ".", "x", "m", "l">>
PC2 == <<"/", "c", "2", ".", "x", "m", "l">>
PC3 == <<"/", "c", "3", ".", "x", "m", "l">>
PW1 == <<"/", "w", "1", ".", "x", "m", "l">>
PW2 == <<"/", "w", "2", ".", "x", "m", "l">>
PW3 == <<"/", "w", "3", ".", "x", "m", "l">>

\* Number of <url> entries of each of the wide child sitemaps /w1.xml, /w2.xml.
WideLeafCount == 300

\* A sitemap document: the <loc> texts of its <sitemap> elements and of its
\* <url> elements, in document order.
Doc(sm, ur) == [sitemap |-> sm, url |-> ur]
NoDoc == [sitemap |-> <<>>, url |-> <<>>]

Sites == {"small", "wide"}

\* Whether the site serves a sitemap document at the (serialised) URL u.
HasDoc(site, u) ==
    /\ u.k = "abs" /\ u.o = OA /\ u.h = <<>>
    /\ IF site = "small"
       THEN u.p \in {PSitemap, PSitemapIndex, PSitemaps, PC1, PC2}
       ELSE u.p \in {PSitemap, PSitemapIndex, PW1, PW2, PW3}

\* The document the site serves at u.
SitemapDoc(site, u) ==
    IF ~HasDoc(site, u) THEN NoDoc
    ELSE IF site = "small"
    THEN CASE u.p = PSitemap ->
                Doc(<<>>, <<Abs(OA, P1), Abs(OB, P1), Abs(OA, PPdf), Abs(OA, P2)>>)
           [] u.p = PSitemapIndex ->
                Doc(<<Abs(OA, PC1), Abs(OA, PSitemapIndex), EmptyStr, Abs(OA, PC2),
                      Abs(OA, PC3), BadStr, Abs(OA, PC1)>>, <<>>)
           [] u.p = PSitemaps ->
                Doc(<<>>, <<Abs(OB, P2), AbsH(OA, P1, <<"s">>), Abs(OA, PAdmin)>>)
           [] u.p = PC1 ->
                Doc(<<>>, <<Abs(OA, P2), Abs(OA, P1), Abs(OA, P2)>>)
           [] OTHER ->
                Doc(<<Abs(OA, PC1)>>, <<Abs(OA, PAdmin), Abs(OA, PRoot)>>)
    ELSE CASE u.p = PSitemap ->
                Doc(<<Abs(OA, PW1), Abs(OA, PW2), Abs(OA, PW3)>>, <<>>)
           [] u.p = PSitemapIndex ->
                Doc(<<>>, <<Abs(OB, P1)>>)
           [] u.p = PW1 ->
                Doc(<<>>, [i \in 1..WideLeafCount |-> Abs(OA, P1)])
           [] u.p = PW2 ->
                Doc(<<>>, [i \in 1..WideLeafCount |-> Abs(OA, P2)])
           [] OTHER ->
                Doc(<<>>, <<Abs(OA, P2)>>)

\* The href attributes of the <a href> elements of the page at u, in
\* document order (the same pages on both sites).
PageLinks(u) ==
    IF u.k # "abs" \/ u.o # OA THEN <<>>
    ELSE CASE u.p = PRoot ->
                <<Rel(PRoot), Abs(OB, P1), BadStr, Rel(P1), EmptyStr,
                  RelH(P2, <<"s">>), Rel(P2)>>
           [] u.p = P1 ->
                <<Rel(PPdf), Rel(P2), Abs(OA, PNone)>>
           [] u.p = P2 ->
                <<Rel(PAdmin), Rel(P1)>>
           [] OTHER -> <<>>

\* ------------------------------------------------------------------- state
VARIABLES
    site,            \* the web site the run talks to
    websiteUrl,      \* argument of the running method
    maxPages,        \* options.maxPages
    hasCallback,     \* options.onPageProcessed is set
    useAI,           \* options.useAI && options.glmApiKey && options.deepAnalysis
    entry,           \* the method the caller invoked
    caller,          \* the method whose body is running
    pc,              \* position of the run
    visited,         \* this.visited
    baseUrl,         \* this.baseUrl
    sitemapDepth,    \* this.sitemapDepth
    stack,           \* active parseSitemap calls, innermost last
    sitemapPages,    \* result of the top-level parseSitemap call (urls)
    pagesToProcess,  \* sitemapPages.slice(0, maxPages)
    idx,             \* position of the for-loop in pagesToProcess
    processedPages,  \* results of the sitemap-driven loop
    processedCount,  \* counter of crawlWebsiteWithRealTimeUpdates
    toVisit,         \* queue of the fallback crawl
    pages,           \* results of the fallback crawl
    output,          \* the list the invoked method returned
    cbLog,           \* history: invocations of onPageProcessed
    fetchLog,        \* history: page fetches, with their outcome
    enqueued,        \* history: every url pushed on toVisit
    shifted,         \* history: number of toVisit.shift() calls
    leafSeen,        \* history: <url> entries of the documents parsed
    sitemapFetches,  \* history: a sitemap request was sent, a document was parsed
    xpc,             \* position of a call of one of the pure methods
    probeUrl,        \* argument of a shouldCrawlUrl call
    probeBase,       \* this.baseUrl of a shouldCrawlUrl call
    verdict,         \* what the shouldCrawlUrl call returned
    dom,             \* the document ($) of an extraction call
    pageSections,    \* what extractPageSections($) returned
    exactSections,   \* what createSectionsFromExactContent($) returned
    pageUrl,         \* the url of the page whose document $ is
    exactContent,    \* the content array of extractExactContentInOrder($, url)
    pageImages,      \* what extractImages($, url) returned
    jobs,            \* the rows of the analysisJobs table, by job id
    jobPc,           \* position of each processAnalysisJob call
    crawlers,        \* the fields of the WebsiteCrawler instances
    run,             \* the locals of each job's crawlWebsite call and of its loops
    discoveredPages, \* the rows of the discoveredPages table, by job id
    jobLog           \* history: the errors raised while a job was processed

vars == <<site, websiteUrl, maxPages, hasCallback, entry, caller, pc, visited,
          baseUrl, sitemapDepth, stack, sitemapPages, pagesToProcess, idx,
          processedPages, processedCount, toVisit, pages, output, cbLog,
          fetchLog, enqueued, shifted, leafSeen, useAI, sitemapFetches,
          xpc, probeUrl, probeBase, verdict, dom, pageSections, exactSections,
          pageUrl, exactContent, pageImages, jobs, jobPc, crawlers, run,
          discoveredPages, jobLog>>

inputVars == <<site, websiteUrl, maxPages, hasCallback, entry, useAI>>
fieldVars == <<visited, baseUrl, sitemapDepth>>
sitemapLoopVars == <<pagesToProcess, idx, processedPages, processedCount>>
fallbackVars == <<toVisit, pages, enqueued, shifted>>
crawlVars == <<inputVars, caller, pc, fieldVars, stack, sitemapPages, sitemapLoopVars,
               fallbackVars, output, cbLog, fetchLog, leafSeen, sitemapFetches>>
probeVars == <<probeUrl, probeBase, verdict>>
extractInputs == <<dom, pageUrl>>
extractVars == <<extractInputs, pageSections, exactSections, exactContent, pageImages>>
jobVars == <<jobs, jobPc, crawlers, run, discoveredPages, jobLog>>
pureVars == <<xpc, probeVars, extractVars, jobVars>>

SeedUrls == {Abs(OA, PNone), Abs(OA, PRoot), BadStr}

\* no run has been started
CrawlIdle ==
    /\ websiteUrl = EmptyStr
    /\ maxPages = 1
    /\ hasCallback = FALSE
    /\ useAI = FALSE
    /\ entry = "none"
    /\ caller = "none"
    /\ pc = "idle"
    /\ visited = {}
    /\ baseUrl = ""
    /\ sitemapDepth = 0
    /\ stack = <<>>
    /\ sitemapPages = <<>>
    /\ pagesToProcess = <<>>
    /\ idx = 1
    /\ processedPages = <<>>
    /\ processedCount = 0
    /\ toVisit = <<>>
    /\ pages = <<>>
    /\ output = <<>>
    /\ cbLog = <<>>
    /\ fetchLog = <<>>
    /\ enqueued = <<>>
    /\ shifted = 0
    /\ leafSeen = 0
    /\ sitemapFetches = [sent |-> FALSE, parsed |-> FALSE]

\* no call of a pure method is under way
ProbeIdle ==
    /\ probeUrl = EmptyStr
    /\ probeBase = ""
    /\ verdict = FALSE

ExtractIdle ==
    /\ dom = <<>>
    /\ pageUrl = EmptyStr
    /\ pageSections = <<>>
    /\ exactSections = <<>>
    /\ exactContent = [content |-> <<>>, finalContent |-> <<>>]
    /\ pageImages = <<>>

\* no analysis job has been created
JobsIdle ==
    /\ jobs = <<>>
    /\ jobPc = <<>>
    /\ crawlers = <<>>
    /\ run = <<>>
    /\ discoveredPages = <<>>
    /\ jobLog = <<>>

Init ==
    /\ site \in Sites
    /\ CrawlIdle
    /\ xpc = "idle"
    /\ ProbeIdle
    /\ ExtractIdle
    /\ JobsIdle

\* ------------------------------------------------------------ parseSitemap
\* the locals of one parseSitemap call; response is what the last
\* axios.get of the call came to ("none" before the first)
Frame(u, ind) ==
    [url |-> u, ind |-> ind, st |-> "enter", cands |-> <<>>, i |-> 1,
     response |-> "none", kids |-> <<>>, j |-> 1, all |-> <<>>, ret |-> <<>>]

Top == stack[Len(stack)]
SetTop(f) == [stack EXCEPT ![Len(stack)] = f]

\* the recursion guard at the head of parseSitemap
DepthExceeded(d) == d >= MAX_SITEMAP_DEPTH

\* the candidate list with its first two entries swapped
SitemapCandidatesIndexFirst(u, base, ind) ==
    IF ind THEN <<u>>
    ELSE <<Abs(base, PSitemapIndex), Abs(base, PSitemap),
           Abs(base, PSitemapDashIndex), Abs(base, PSitemaps)>>

\* the candidate list sitemapUrls
SitemapCandidates(u, base, ind) ==
    IF ind THEN <<u>>
    ELSE <<Abs(base, PSitemap), Abs(base, PSitemapIndex),
           Abs(base, PSitemapDashIndex), Abs(base, PSitemaps)>>

\* the list urls built from a parsed document
CollectUrls(doc, base) ==
    SelectSeq(doc.sitemap, LAMBDA s : s # EmptyStr)
        \o SelectSeq(doc.url, LAMBDA u : u # EmptyStr /\ shouldCrawlUrl(u, base))

\* the index test, taken for every document with <sitemap> elements
IsIndexBranchAnyCall(doc, ind) == Len(doc.sitemap) > 0

\* $('sitemap').length > 0 && !isIndividualSitemap
IsIndexBranch(doc, ind) == Len(doc.sitemap) > 0 /\ ~ind

\* urls.map(...) calls determinePageType, whose new URL(url) throws on a
\* string that does not parse
MapThrows(urls) == \E n \in 1..Len(urls) : ~Parses(urls[n])

\* the cap test after the results of a child were appended
LimitReached(all) == Len(all) >= SITEMAP_PAGE_LIMIT

\* start of a parseSitemap call: the guard, then the candidate list
ParseEnter ==
    /\ pc = "parseSitemap"
    /\ Top.st = "enter"
    /\ IF DepthExceeded(sitemapDepth)
       THEN stack' = SetTop([Top EXCEPT !.st = "ret", !.ret = <<>>])
       ELSE stack' = SetTop([Top EXCEPT !.st = "loop", !.i = 1,
                        !.cands = SitemapCandidates(Top.url, baseUrl, Top.ind)])
    /\ UNCHANGED <<pureVars, sitemapFetches, inputVars, caller, pc, fieldVars, sitemapPages,
                   sitemapLoopVars, fallbackVars, output, cbLog, fetchLog, leafSeen>>

\* axios.get of the current candidate fails (no document, error status,
\* network error, timeout): the catch block, then the next candidate
ParseFetchFails ==
    /\ pc = "parseSitemap"
    /\ Top.st = "loop"
    /\ Top.i <= Len(Top.cands)
    /\ stack' = SetTop([Top EXCEPT !.i = @ + 1, !.response = "error"])
    /\ sitemapFetches' = [sitemapFetches EXCEPT !.sent = TRUE]
    /\ UNCHANGED <<pureVars, inputVars, caller, pc, fieldVars, sitemapPages,
                   sitemapLoopVars, fallbackVars, output, cbLog, fetchLog, leafSeen>>

\* axios.get of the current candidate returns a document
ParseFetchOk ==
    /\ pc = "parseSitemap"
    /\ Top.st = "loop"
    /\ Top.i <= Len(Top.cands)
    /\ Parses(Top.cands[Top.i])
    /\ HasDoc(site, Href(Top.cands[Top.i]))
    /\ LET doc == SitemapDoc(site, Href(Top.cands[Top.i]))
           urls == CollectUrls(doc, baseUrl)
       IN  /\ leafSeen' = leafSeen + Len(doc.url)
           /\ sitemapFetches' = [sent |-> TRUE, parsed |-> TRUE]
           /\ IF Len(urls) = 0
              THEN /\ stack' = SetTop([Top EXCEPT !.i = @ + 1, !.response = "document"])
                   /\ UNCHANGED sitemapDepth
              ELSE IF IsIndexBranch(doc, Top.ind)
              THEN /\ sitemapDepth' = sitemapDepth + 1
                   /\ stack' = SetTop([Top EXCEPT !.st = "children", !.j = 1,
                                    !.response = "document",
                                    !.kids = Take(urls, MAX_CHILD_SITEMAPS),
                                    !.all = <<>>])
              ELSE IF MapThrows(urls)
              THEN /\ stack' = SetTop([Top EXCEPT !.i = @ + 1, !.response = "document"])
                   /\ UNCHANGED sitemapDepth
              ELSE /\ stack' = SetTop([Top EXCEPT !.st = "ret", !.ret = urls,
                                           !.response = "document"])
                   /\ UNCHANGED sitemapDepth
    /\ UNCHANGED <<pureVars, inputVars, caller, pc, visited, baseUrl, sitemapPages,
                   sitemapLoopVars, fallbackVars, output, cbLog, fetchLog>>

\* every candidate was tried: return []
ParseNoValid ==
    /\ pc = "parseSitemap"
    /\ Top.st = "loop"
    /\ Top.i > Len(Top.cands)
    /\ stack' = SetTop([Top EXCEPT !.st = "ret", !.ret = <<>>])
    /\ UNCHANGED <<pureVars, sitemapFetches, inputVars, caller, pc, fieldVars, sitemapPages,
                   sitemapLoopVars, fallbackVars, output, cbLog, fetchLog, leafSeen>>

\* the index loop calls parseSitemap(individualSitemapUrl, true)
ParseCallChild ==
    /\ pc = "parseSitemap"
    /\ Top.st = "children"
    /\ Top.j <= Len(Top.kids)
    /\ stack' = Append(stack, Frame(Top.kids[Top.j], TRUE))
    /\ UNCHANGED <<pureVars, sitemapFetches, inputVars, caller, pc, fieldVars, sitemapPages,
                   sitemapLoopVars, fallbackVars, output, cbLog, fetchLog, leafSeen>>

\* the index loop is over and the depth counter is left as it is
ParseIndexDoneKeepsDepth ==
    /\ pc = "parseSitemap"
    /\ Top.st = "children"
    /\ Top.j > Len(Top.kids)
    /\ sitemapDepth' = sitemapDepth
    /\ stack' = SetTop([Top EXCEPT !.st = "ret", !.ret = Top.all])
    /\ UNCHANGED <<pureVars, sitemapFetches, inputVars, caller, pc, visited, baseUrl, sitemapPages,
                   sitemapLoopVars, fallbackVars, output, cbLog, fetchLog, leafSeen>>

\* the index loop is over: this.sitemapDepth--, return allPages
ParseIndexDone ==
    /\ pc = "parseSitemap"
    /\ Top.st = "children"
    /\ Top.j > Len(Top.kids)
    /\ sitemapDepth' = sitemapDepth - 1
    /\ stack' = SetTop([Top EXCEPT !.st = "ret", !.ret = Top.all])
    /\ UNCHANGED <<pureVars, sitemapFetches, inputVars, caller, pc, visited, baseUrl, sitemapPages,
                   sitemapLoopVars, fallbackVars, output, cbLog, fetchLog, leafSeen>>

\* a child call returns to the index loop: allPages.push(...), the cap test
ParseReturnToParent ==
    /\ pc = "parseSitemap"
    /\ Top.st = "ret"
    /\ Len(stack) > 1
    /\ LET parent == stack[Len(stack) - 1]
           all == parent.all \o Top.ret
           rest == SubSeq(stack, 1, Len(stack) - 2)
       IN  stack' = Append(rest,
                [parent EXCEPT !.all = all,
                               !.j = IF LimitReached(all)
                                     THEN Len(parent.kids) + 1
                                     ELSE @ + 1])
    /\ UNCHANGED <<pureVars, sitemapFetches, inputVars, caller, pc, fieldVars, sitemapPages,
                   sitemapLoopVars, fallbackVars, output, cbLog, fetchLog, leafSeen>>

\* the top-level call returns to crawlWebsite / crawlWebsiteWithRealTimeUpdates
ParseReturnToCaller ==
    /\ pc = "parseSitemap"
    /\ Top.st = "ret"
    /\ Len(stack) = 1
    /\ sitemapPages' = Top.ret
    /\ stack' = <<>>
    /\ pc' = "resolved"
    /\ UNCHANGED <<pureVars, sitemapFetches, inputVars, caller, fieldVars, sitemapLoopVars, fallbackVars,
                   output, cbLog, fetchLog, leafSeen>>

\* ------------------------------------------------------------- page fetch
\* What one page fetch and the processing of its response can come to:
\* a response with a status, no response at all (network error, timeout),
\* or a 200 response whose parsing or extraction throws.
\* ai: what the AI step of the page did ("none": the step is not run)
Response(status) == [kind |-> "response", status |-> status, ai |-> "none"]
NoResponse == [kind |-> "network", status |-> 0, ai |-> "none"]
ExtractionThrows == [kind |-> "throw", status |-> 200, ai |-> "none"]

Statuses == {200, 301, 404}

Outcomes == {Response(st) : st \in Statuses} \cup {NoResponse, ExtractionThrows}

\* the request of GLMService.analyzeStructureWithAI answers ("ok") or fails
\* ("fails": request error, timeout, bad response); "sectionsThrow":
\* createSectionsFromExactContent throws after the analysis came back
AiSteps == {"ok", "fails", "sectionsThrow"}

AiResponse(status, a) == [kind |-> "response", status |-> status, ai |-> a]

\* the outcomes of a page whose analysis runs the AI branch: a page that
\* loads (with status 200) goes through one of the AI steps
AiOutcomes ==
    {AiResponse(200, a) : a \in AiSteps}
        \cup {o \in Outcomes : ~(o.kind = "response" /\ o.status >= 200 /\ o.status < 400)}

\* GLMService.analyzePageStructureOnly: its catch returns the fallback
\* analysis, so the call never throws
analyzePageStructureOnly(a) ==
    [threw |-> FALSE,
     summary |-> IF a = "ok" THEN "ai summary"
                 ELSE "Structure analysis failed - unable to process page"]

\* a validateStatus that accepts 2xx only
validateStatus2xxOnly(status) == status >= 200 /\ status < 300

\* validateStatus of the page requests
validateStatus(status) == status >= 200 /\ status < 400

\* the try block reaches its push
Succeeds(o) == o.kind = "response" /\ validateStatus(o.status)

\* statusCode of a failed page with every failure reported as 0
ErrorStatusZero(o) == 0

\* axios.isAxiosError(error) ? error.response?.status || 0 : 0
ErrorStatus(o) == IF o.kind = "response" THEN o.status ELSE 0

\* pageData of a page that was fetched and analysed
TraditionalPage(u, o) ==
    [url |-> u, title |-> "title", statusCode |-> o.status,
     contentSummary |-> "summary", sections |-> "extractPageSections",
     failed |-> FALSE]

\* pageData of a page that was fetched and analysed: the AI branch with its
\* catch (aiError), or performTraditionalAnalysis
SuccessPage(u, o) ==
    IF o.ai = "none" \/ o.ai = "sectionsThrow" \/ analyzePageStructureOnly(o.ai).threw
    THEN TraditionalPage(u, o)
    ELSE [url |-> u, title |-> "title", statusCode |-> o.status,
          contentSummary |-> analyzePageStructureOnly(o.ai).summary,
          sections |-> "createSectionsFromExactContent", failed |-> FALSE]

\* the page pushed by the catch blocks
ErrorPage(u, o) ==
    [url |-> u, title |-> "Failed to load", statusCode |-> ErrorStatus(o),
     contentSummary |-> "Page could not be analyzed due to loading error",
     sections |-> "none", failed |-> TRUE]

\* a catch block that handles request errors only
CatchHandlesAxiosOnly(o) == o.kind # "throw"

\* catch (error) of the loop bodies: every error of the try block lands there
CatchHandles(o) == TRUE

\* the outcomes a page of this loop can have
OutcomesFor(ai) == IF ai THEN AiOutcomes ELSE Outcomes

PageFor(u, o) == IF Succeeds(o) THEN SuccessPage(u, o) ELSE ErrorPage(u, o)

\* a loop body that loses the page when its processing fails
PushResultDropFailed(list, u, o) ==
    IF Succeeds(o) THEN Append(list, SuccessPage(u, o)) ELSE list

\* the loop body: push pageData, or push the error page in the catch block
PushResult(list, u, o) == Append(list, PageFor(u, o))

\* sitemapPages.slice(0, maxPages - 1)
SliceShort(list, n) == Take(list, n - 1)

\* sitemapPages.slice(0, options.maxPages)
Slice(list, n) == Take(list, n)

\* a rejected callback reaching the outer catch block
CallbackRejectedOuterCatch(list, u) == Append(list, ErrorPage(u, ExtractionThrows))

\* the inner catch around onPageProcessed: log only
CallbackRejected(list, u) == list

\* -------------------------------------------------------- method entries
\* the head of crawlWebsite: reset the fields, then call parseSitemap
BeginCrawlWebsite(u) ==
    /\ visited' = {}
    /\ baseUrl' = Origin(u)
    /\ sitemapDepth' = 0
    /\ pages' = <<>>
    /\ toVisit' = <<u>>
    /\ enqueued' = <<u>>
    /\ shifted' = 0
    /\ fetchLog' = <<>>
    /\ leafSeen' = 0
    /\ caller' = "crawlWebsite"
    /\ stack' = <<Frame(u, FALSE)>>
    /\ pc' = "parseSitemap"

\* a seed that passes for a URL whatever it is
SeedAcceptedAlways(u) == TRUE

\* new URL(websiteUrl) at the top of both entry points does not throw
SeedAccepted(u) == Parses(u)

\* sitemapPages.length > 1 in place of sitemapPages.length > 0
FoundSitemapPagesMoreThanOne(list) == Len(list) > 1

\* if (sitemapPages.length > 0)
FoundSitemapPages(list) == Len(list) > 0

\* a call whose seed does not parse: new URL(websiteUrl) throws
CallThrows ==
    /\ pc = "idle"
    /\ \E u \in SeedUrls, mp \in 1..MaxPagesBound, m \in {"crawlWebsite", "realtime"} :
          /\ ~SeedAccepted(u)
          /\ websiteUrl' = u
          /\ maxPages' = mp
          /\ entry' = m
          /\ caller' = m
    /\ pc' = "threw"
    /\ UNCHANGED <<pureVars, sitemapFetches, site, hasCallback, useAI, fieldVars, stack, sitemapPages,
                   sitemapLoopVars, fallbackVars, output, cbLog, fetchLog, leafSeen>>

\* crawlWebsite(websiteUrl, options); the AI branch of the page analysis is
\* the same code in both entry points and is driven through this one
CallCrawlWebsite ==
    /\ pc = "idle"
    /\ \E u \in SeedUrls, mp \in 1..MaxPagesBound, ai \in BOOLEAN :
          /\ SeedAccepted(u)
          /\ websiteUrl' = u
          /\ maxPages' = mp
          /\ useAI' = ai
          /\ BeginCrawlWebsite(u)
    /\ entry' = "crawlWebsite"
    /\ hasCallback' = FALSE
    /\ UNCHANGED <<pureVars, sitemapFetches, site, sitemapPages, sitemapLoopVars, output, cbLog>>

\* crawlWebsiteWithRealTimeUpdates(websiteUrl, options)
CallRealTime ==
    /\ pc = "idle"
    /\ \E u \in SeedUrls, mp \in 1..MaxPagesBound, cb \in BOOLEAN :
          /\ SeedAccepted(u)
          /\ websiteUrl' = u
          /\ maxPages' = mp
          /\ hasCallback' = cb
          /\ baseUrl' = Origin(u)
          /\ stack' = <<Frame(u, FALSE)>>
    /\ visited' = {}
    /\ sitemapDepth' = 0
    /\ entry' = "realtime"
    /\ caller' = "realtime"
    /\ useAI' = FALSE
    /\ pc' = "parseSitemap"
    /\ UNCHANGED <<pureVars, sitemapFetches, site, sitemapPages, sitemapLoopVars, fallbackVars, output,
                   cbLog, fetchLog, leafSeen>>

\* crawlWebsiteWithRealTimeUpdates found no sitemap pages:
\* return this.crawlWebsite(websiteUrl, options)
DelegateToCrawlWebsite ==
    /\ pc = "resolved"
    /\ caller = "realtime"
    /\ ~FoundSitemapPages(sitemapPages)
    /\ BeginCrawlWebsite(websiteUrl)
    /\ UNCHANGED <<pureVars, sitemapFetches, inputVars, sitemapPages, sitemapLoopVars, output, cbLog>>

\* sitemap pages were found: set up the sitemap-driven loop
StartSitemapLoop ==
    /\ pc = "resolved"
    /\ FoundSitemapPages(sitemapPages)
    /\ pagesToProcess' = Slice(sitemapPages, maxPages)
    /\ processedPages' = <<>>
    /\ processedCount' = 0
    /\ idx' = 1
    /\ pc' = "sitemapLoop"
    /\ UNCHANGED <<pureVars, sitemapFetches, inputVars, caller, fieldVars, stack, sitemapPages,
                   fallbackVars, output, cbLog, fetchLog, leafSeen>>

\* crawlWebsite found no sitemap pages: go on to the fallback crawl
StartFallback ==
    /\ pc = "resolved"
    /\ caller = "crawlWebsite"
    /\ ~FoundSitemapPages(sitemapPages)
    /\ pc' = "fallback"
    /\ UNCHANGED <<pureVars, sitemapFetches, inputVars, caller, fieldVars, stack, sitemapPages,
                   sitemapLoopVars, fallbackVars, output, cbLog, fetchLog, leafSeen>>

\* ---------------------------------------------------- sitemap-driven loop
\* one iteration of the for-loop up to its push (and the counter)
SitemapPage ==
    /\ pc = "sitemapLoop"
    /\ idx <= Len(pagesToProcess)
    /\ \E o \in OutcomesFor(useAI) :
          /\ fetchLog' = Append(fetchLog, [url |-> pagesToProcess[idx], outcome |-> o])
          /\ IF Succeeds(o) \/ CatchHandles(o)
             THEN /\ processedPages' = PushResult(processedPages, pagesToProcess[idx], o)
                  /\ IF caller = "realtime"
                     THEN /\ processedCount' = processedCount + 1
                          /\ IF hasCallback
                             THEN pc' = "callback" /\ UNCHANGED idx
                             ELSE idx' = idx + 1 /\ UNCHANGED pc
                     ELSE /\ idx' = idx + 1
                          /\ UNCHANGED <<processedCount, pc>>
             ELSE /\ pc' = "threw"
                  /\ UNCHANGED <<processedPages, processedCount, idx>>
    /\ UNCHANGED <<pureVars, sitemapFetches, inputVars, caller, fieldVars, stack, sitemapPages,
                   pagesToProcess, fallbackVars, output, cbLog, leafSeen>>

\* a callback that is handed the number of sitemap urls as totalFound
CallbackTotalOfSitemap ==
    /\ pc = "callback"
    /\ \E rejected \in BOOLEAN :
          /\ cbLog' = Append(cbLog,
                [page |-> processedPages[Len(processedPages)],
                 processedCount |-> processedCount,
                 totalFound |-> Len(sitemapPages),
                 at |-> Len(processedPages),
                 rejected |-> rejected])
          /\ processedPages' =
                IF rejected
                THEN CallbackRejected(processedPages, pagesToProcess[idx])
                ELSE processedPages
    /\ idx' = idx + 1
    /\ pc' = "sitemapLoop"
    /\ UNCHANGED <<pureVars, sitemapFetches, inputVars, caller, fieldVars, stack, sitemapPages,
                   pagesToProcess, processedCount, fallbackVars, output,
                   fetchLog, leafSeen>>

\* await options.onPageProcessed(page, processedCount, pagesToProcess.length)
Callback ==
    /\ pc = "callback"
    /\ \E rejected \in BOOLEAN :
          /\ cbLog' = Append(cbLog,
                [page |-> processedPages[Len(processedPages)],
                 processedCount |-> processedCount,
                 totalFound |-> Len(pagesToProcess),
                 at |-> Len(processedPages),
                 rejected |-> rejected])
          /\ processedPages' =
                IF rejected
                THEN CallbackRejected(processedPages, pagesToProcess[idx])
                ELSE processedPages
    /\ idx' = idx + 1
    /\ pc' = "sitemapLoop"
    /\ UNCHANGED <<pureVars, sitemapFetches, inputVars, caller, fieldVars, stack, sitemapPages,
                   pagesToProcess, processedCount, fallbackVars, output,
                   fetchLog, leafSeen>>

\* the for-loop is over: return processedPages
SitemapLoopDone ==
    /\ pc = "sitemapLoop"
    /\ idx > Len(pagesToProcess)
    /\ output' = processedPages
    /\ pc' = "done"
    /\ UNCHANGED <<pureVars, sitemapFetches, inputVars, caller, fieldVars, stack, sitemapPages,
                   sitemapLoopVars, fallbackVars, cbLog, fetchLog, leafSeen>>

\* ---------------------------------------------------------- fallback crawl
\* toVisit.pop() in place of toVisit.shift(): [next url, rest of the queue]
DequeueLast(q) == <<q[Len(q)], SubSeq(q, 1, Len(q) - 1)>>

\* toVisit.shift(): [next url, rest of the queue]
Dequeue(q) == <<Head(q), Tail(q)>>

\* the $('a[href]').each callback over the links of a page: the urls to push
RECURSIVE LinksToPush(_, _, _)
LinksToPush(links, currentUrl, base) ==
    IF links = <<>> THEN <<>>
    ELSE LET href == Head(links)
             absoluteUrl == resolveUrl(href, currentUrl)
             rest == LinksToPush(Tail(links), currentUrl, base)
         IN  IF href # EmptyStr /\ shouldCrawlUrl(absoluteUrl, base)
             THEN <<absoluteUrl>> \o rest
             ELSE rest

\* a while condition that forgets the page budget
FallbackContinuesNoBudget == Len(toVisit) > 0

\* the while condition
FallbackContinues == Len(toVisit) > 0 /\ Len(pages) < maxPages

\* the popped url was visited before: continue
FallbackSkip ==
    /\ pc = "fallback"
    /\ FallbackContinues
    /\ Dequeue(toVisit)[1] \in visited
    /\ toVisit' = Dequeue(toVisit)[2]
    /\ shifted' = shifted + 1
    /\ UNCHANGED <<pureVars, sitemapFetches, inputVars, caller, pc, fieldVars, stack, sitemapPages,
                   sitemapLoopVars, pages, enqueued, output, cbLog, fetchLog, leafSeen>>

\* one iteration of the while-loop that fetches the popped url
FallbackPage ==
    /\ pc = "fallback"
    /\ FallbackContinues
    /\ LET currentUrl == Dequeue(toVisit)[1]
           rest == Dequeue(toVisit)[2]
       IN  /\ currentUrl \notin visited
           /\ visited' = visited \cup {currentUrl}
           /\ shifted' = shifted + 1
           /\ \E o \in Outcomes :
                LET found == IF Succeeds(o)
                             THEN LinksToPush(PageLinks(Href(currentUrl)), currentUrl, baseUrl)
                             ELSE <<>>
                IN  /\ fetchLog' = Append(fetchLog, [url |-> currentUrl, outcome |-> o])
                    /\ toVisit' = rest \o found
                    /\ enqueued' = enqueued \o found
                    /\ IF Succeeds(o) \/ CatchHandles(o)
                       THEN pages' = PushResult(pages, currentUrl, o) /\ UNCHANGED pc
                       ELSE pc' = "threw" /\ UNCHANGED pages
    /\ UNCHANGED <<pureVars, sitemapFetches, inputVars, caller, baseUrl, sitemapDepth, stack,
                   sitemapPages, sitemapLoopVars, output, cbLog, leafSeen>>

\* the while-loop is over: return pages
FallbackDone ==
    /\ pc = "fallback"
    /\ ~FallbackContinues
    /\ output' = pages
    /\ pc' = "done"
    /\ UNCHANGED <<pureVars, sitemapFetches, inputVars, caller, fieldVars, stack, sitemapPages,
                   sitemapLoopVars, fallbackVars, cbLog, fetchLog, leafSeen>>

\* ------------------------------------------------------------ specification
Next ==
    \/ CallThrows
    \/ CallCrawlWebsite
    \/ CallRealTime
    \/ ParseEnter
    \/ ParseFetchFails
    \/ ParseFetchOk
    \/ ParseNoValid
    \/ ParseCallChild
    \/ ParseIndexDone
    \/ ParseReturnToParent
    \/ ParseReturnToCaller
    \/ DelegateToCrawlWebsite
    \/ StartSitemapLoop
    \/ StartFallback
    \/ SitemapPage
    \/ Callback
    \/ SitemapLoopDone
    \/ FallbackSkip
    \/ FallbackPage
    \/ FallbackDone

Spec == Init /\ [][Next]_vars

\* the run has returned
Done == pc = "done"

\* crawlWebsite on a site whose sitemap requests all fail: the resolver gives
\* up and the while-loop runs; the loop is a synchronous sequence of awaits,
\* so a step that can be taken is taken
FallbackNext ==
    \/ CallCrawlWebsite
    \/ ParseEnter
    \/ ParseFetchFails
    \/ ParseNoValid
    \/ ParseReturnToCaller
    \/ StartFallback
    \/ FallbackSkip
    \/ FallbackPage
    \/ FallbackDone

FallbackSpec == Init /\ [][FallbackNext]_vars /\ WF_vars(FallbackNext)

\* The sitemap resolver on its own: the run up to the return of the
\* top-level parseSitemap call.  Weak fairness: each awaited request returns
\* or times out, and the event loop then runs the continuation.
ResolverNext ==
    \/ CallCrawlWebsite
    \/ CallRealTime
    \/ ParseEnter
    \/ ParseFetchFails
    \/ ParseFetchOk
    \/ ParseNoValid
    \/ ParseCallChild
    \/ ParseIndexDone
    \/ ParseReturnToParent
    \/ ParseReturnToCaller

ResolverSpec == Init /\ [][ResolverNext]_vars /\ WF_vars(ResolverNext)

\* ------------------------------------------------------------------ helpers
\* the run went through the sitemap-driven loop
SitemapDriven == pagesToProcess # <<>>

\* the run went through the fallback crawl
FallbackRun == pagesToProcess = <<>> /\ pc \in {"fallback", "done"}

\* the result list the run is building
Results == IF SitemapDriven THEN processedPages ELSE pages

\* number of sitemap urls the for-loop has finished with its push
Consumed == IF pc = "callback" THEN idx ELSE idx - 1

UrlsOf(list) == [n \in 1..Len(list) |-> list[n].url]

IsPrefix(a, b) == Len(a) <= Len(b) /\ SubSeq(b, 1, Len(a)) = a

\* the elements of s in order of first occurrence
RECURSIVE FirstOccurrences(_)
FirstOccurrences(s) ==
    IF s = <<>> THEN <<>>
    ELSE LET front == FirstOccurrences(SubSeq(s, 1, Len(s) - 1))
             last == s[Len(s)]
         IN  IF \E n \in 1..Len(front) : front[n] = last
             THEN front
             ELSE Append(front, last)

\* ------------------------------------------------------------------ claims

\* C1: in a sitemap-driven run the loop covers the first min(n, maxPages)
\* sitemap urls, every url it has dealt with has exactly one result, at the
\* url's own position and carrying that url, whatever the outcome of its
\* fetch, parse or extraction was, and the returned list has one result for
\* each of those urls.
C1_OneResultPerSitemapUrl ==
    SitemapDriven =>
        /\ Len(pagesToProcess) = Min(Len(sitemapPages), maxPages)
        /\ \A k \in 1..Len(pagesToProcess) : pagesToProcess[k] = sitemapPages[k]
        /\ Len(processedPages) = Consumed
        /\ Len(fetchLog) = Consumed
        /\ \A k \in 1..Len(processedPages) :
              /\ processedPages[k].url = pagesToProcess[k]
              /\ fetchLog[k].url = pagesToProcess[k]
              /\ processedPages[k].failed = ~Succeeds(fetchLog[k].outcome)
        /\ Done => output = processedPages /\ Len(output) = Len(pagesToProcess)

\* C1 witness: a finished sitemap-driven run in which a url failed and the
\* url after it was processed successfully.
C1_Witness ==
    /\ Done
    /\ SitemapDriven
    /\ \E k \in 1..(Len(output) - 1) : output[k].failed /\ ~output[k + 1].failed

\* C2 (as stated): when a sitemap with leaf entries was read, the number of
\* results returned equals min(number of leaf url entries read, maxPages).
C2_CountEqualsLeafCount ==
    (Done /\ leafSeen > 0) => Len(output) = Min(leafSeen, maxPages)

\* C2 (amended): when the sitemap resolver returns a non-empty list, the
\* number of results returned equals min(length of that list, maxPages).
C2_CountEqualsResolvedCount ==
    (Done /\ Len(sitemapPages) > 0) =>
        Len(output) = Min(Len(sitemapPages), maxPages)

\* C2 witness: a finished sitemap-driven run whose resolver list is shorter
\* than the leaf entries read and shorter than maxPages.
C2_Witness ==
    /\ Done
    /\ SitemapDriven
    /\ Len(sitemapPages) < leafSeen
    /\ Len(sitemapPages) < maxPages
    /\ Len(output) = Len(sitemapPages)

\* C3: in a fallback crawl no two page fetches are for the same normalized
\* url, the seed as passed by the caller included.
C3_NoNormalizedUrlFetchedTwice ==
    FallbackRun =>
        \A m, n \in 1..Len(fetchLog) :
            m < n => Href(fetchLog[m].url) # Href(fetchLog[n].url)

\* C4: every url pushed on the queue after the seed parses and has the
\* origin of the seed; and on a page that was fetched successfully every link
\* the filter accepts is pushed, also when it follows a link that is rejected
\* or does not parse.
C4_EnqueuedSameOrigin ==
    /\ \A n \in 2..Len(enqueued) :
          /\ Parses(enqueued[n])
          /\ Origin(enqueued[n]) = Origin(websiteUrl)
    /\ FallbackRun =>
          \A n \in 1..Len(fetchLog) :
              Succeeds(fetchLog[n].outcome) =>
                  LET cur == fetchLog[n].url
                      links == PageLinks(Href(cur))
                  IN  \A m \in 1..Len(links) :
                          LET t == resolveUrl(links[m], cur)
                          IN  (/\ links[m] # EmptyStr
                               /\ Parses(t)
                               /\ Origin(t) = Origin(websiteUrl)
                               /\ shouldCrawlUrl(t, Origin(t)))
                              => \E q \in 2..Len(enqueued) : enqueued[q] = t

\* C4 witness: the home page was crawled; its last link, which follows a
\* link to another origin, an unparsable href and a fragment link, is queued.
C4_Witness ==
    /\ FallbackRun
    /\ \E n \in 1..Len(fetchLog) :
          /\ Succeeds(fetchLog[n].outcome)
          /\ Href(fetchLog[n].url) = Abs(OA, PRoot)
    /\ \E q \in 2..Len(enqueued) : enqueued[q] = Abs(OA, P2)

\* C5: no list built or returned by the sitemap resolver has more than 500
\* entries.
C5_LeafCapRespected ==
    /\ Len(sitemapPages) <= SITEMAP_PAGE_LIMIT
    /\ \A n \in 1..Len(stack) :
          /\ Len(stack[n].all) <= SITEMAP_PAGE_LIMIT
          /\ Len(stack[n].ret) <= SITEMAP_PAGE_LIMIT

\* C6: the depth counter and the nesting of parseSitemap calls never exceed
\* the depth bound of 2, and every sitemap resolution that starts comes to
\* its end.
C6_DepthBoundedAndTerminates ==
    /\ [](sitemapDepth \in 0..MAX_SITEMAP_DEPTH /\ Len(stack) <= MAX_SITEMAP_DEPTH)
    /\ (pc = "parseSitemap") ~> (pc = "resolved")

\* C6 witness: the child call for the entry of a sitemap index that points
\* to the index itself has returned.
C6_Witness ==
    /\ pc = "parseSitemap"
    /\ Len(stack) = 2
    /\ Top.ind
    /\ Top.st = "ret"
    /\ Top.url = stack[1].cands[stack[1].i]

\* C7 (as stated): a failed page has exactly one result, with status code 0
\* and a non-empty content summary.
C7_FailedStatusZero ==
    /\ Len(Results) = Len(fetchLog)
    /\ \A n \in 1..Len(fetchLog) :
          ~Succeeds(fetchLog[n].outcome) =>
              /\ Results[n].url = fetchLog[n].url
              /\ Results[n].statusCode = 0
              /\ Results[n].contentSummary # ""

\* C7 (amended): a failed page has exactly one result, with a non-empty
\* content summary; its status code is the status of the response when a
\* response was received and 0 when there was none.
C7_FailedStatusBestKnown ==
    /\ Len(Results) = Len(fetchLog)
    /\ \A n \in 1..Len(fetchLog) :
          ~Succeeds(fetchLog[n].outcome) =>
              /\ Results[n].url = fetchLog[n].url
              /\ Results[n].failed
              /\ Results[n].contentSummary # ""
              /\ fetchLog[n].outcome.kind = "response"
                    => Results[n].statusCode = fetchLog[n].outcome.status
              /\ fetchLog[n].outcome.kind # "response"
                    => Results[n].statusCode = 0

\* C7 witness: a finished run with a page that got a 404 response and a page
\* that got no response.
C7_Witness ==
    /\ Done
    /\ \E m, n \in 1..Len(fetchLog) :
          /\ fetchLog[m].outcome = Response(404)
          /\ output[m].statusCode = 404
          /\ fetchLog[n].outcome = NoResponse
          /\ output[n].statusCode = 0

\* C8: in a run of crawlWebsiteWithRealTimeUpdates with a callback, the
\* callback has been invoked once for every result produced (the newest
\* result excepted while its invocation is due), in the sitemap-driven loop
\* and in the fallback crawl.
C8_CallbackPerResult ==
    (entry = "realtime" /\ hasCallback) =>
        /\ Len(cbLog) = Len(Results) - (IF pc = "callback" THEN 1 ELSE 0)
        /\ \A n \in 1..Len(cbLog) : cbLog[n].page = Results[n]

\* C9: once a callback invocation was rejected, the page it was invoked for
\* keeps its one result at its position, no extra result appears, the loop
\* goes on over the remaining urls and the run returns one result per url.
C9_CallbackRejectionAbsorbed ==
    (\E n \in 1..Len(cbLog) : cbLog[n].rejected) =>
        /\ \A n \in 1..Len(cbLog) :
              /\ cbLog[n].at = n
              /\ processedPages[n] = cbLog[n].page
        /\ Len(processedPages) = Consumed
        /\ \A k \in 1..Len(processedPages) : processedPages[k].url = pagesToProcess[k]
        /\ pc \in {"sitemapLoop", "callback", "done"}
        /\ Done => Len(output) = Len(pagesToProcess)

\* C9 witness: a finished run whose first callback invocation was rejected
\* and which went on to produce further results.
C9_Witness ==
    /\ Done
    /\ Len(cbLog) >= 2
    /\ cbLog[1].rejected
    /\ Len(output) >= 2

\* results are in the order their urls were fetched: sitemap order in the
\* sitemap-driven loop, order of first discovery in the fallback crawl
C10_OrderInv ==
    /\ UrlsOf(Results) = UrlsOf(fetchLog)
    /\ SitemapDriven => UrlsOf(processedPages) = SubSeq(sitemapPages, 1, Len(processedPages))
    /\ FallbackRun => UrlsOf(pages) = FirstOccurrences(SubSeq(enqueued, 1, shifted))

\* a step leaves a result list alone or appends one result to it
C10_AppendOnly ==
    /\ IsPrefix(processedPages, processedPages')
    /\ IsPrefix(pages, pages')
    /\ Len(processedPages') <= Len(processedPages) + 1
    /\ Len(pages') <= Len(pages) + 1

\* C10: results are in the order their urls were processed: sitemap order in
\* the sitemap-driven loop, order of first discovery in the fallback crawl;
\* and a step only ever appends one result to a result list, so an emitted
\* result keeps its position and content.
C10_ProcessingOrder == []C10_OrderInv /\ [][C10_AppendOnly]_vars

\* C10 witness: a finished fallback crawl with three results in which an
\* already visited url was popped and skipped.
C10_Witness ==
    /\ Done
    /\ FallbackRun
    /\ Len(pages) = 3
    /\ shifted > 3


\* ------------------------------------------------------------------- C11
\* what a resolver call leaves behind, and where the run is afterwards
C11_ResolverInv ==
    /\ (pc = "resolved" /\ ~sitemapFetches.parsed) => sitemapPages = <<>>
    /\ pc = "fallback" => sitemapPages = <<>>
    /\ SitemapDriven => sitemapPages # <<>>
    /\ (Done /\ ~sitemapFetches.parsed) => FallbackRun
    /\ (Done /\ sitemapPages # <<>>) => (SitemapDriven /\ pages = <<>>)

\* the steps out of a resolver call: it returns, and the caller branches on
\* the length of the list
C11_ResolverStep ==
    /\ pc = "parseSitemap" => pc' \in {"parseSitemap", "resolved"}
    /\ (pc = "resolved" /\ sitemapPages # <<>>) => pc' = "sitemapLoop"
    /\ (pc = "resolved" /\ sitemapPages = <<>>) =>
          \/ pc' = "fallback"
          \/ caller = "realtime" /\ caller' = "crawlWebsite" /\ pc' = "parseSitemap"

\* C11: when no sitemap document can be fetched and parsed, the resolver
\* returns the empty list without raising and the run goes on to the fallback
\* crawl (crawlWebsiteWithRealTimeUpdates gets there through crawlWebsite);
\* a non-empty resolver result always starts the sitemap-driven loop and
\* never the fallback crawl.
C11_EmptyResolverFallsBack == []C11_ResolverInv /\ [][C11_ResolverStep]_vars

\* C11 witness: a run called through crawlWebsiteWithRealTimeUpdates in which
\* sitemap requests were sent and none gave a document, finished by the
\* fallback crawl with two results.
C11_Witness ==
    /\ Done
    /\ entry = "realtime"
    /\ sitemapFetches.sent /\ ~sitemapFetches.parsed
    /\ FallbackRun
    /\ Len(output) = 2


\* ------------------------------------------------------------------- C12
\* C12: a page whose AI request failed is not a failed page, and its result
\* carries the output of the traditional extractor: the sections of
\* extractPageSections and the summary of generateContentSummary.
C12_AiFailureGivesTraditionalOutput ==
    \A i \in 1..Len(fetchLog) :
        (fetchLog[i].outcome.ai = "fails" /\ i <= Len(Results)) =>
            /\ ~Results[i].failed
            /\ Results[i].sections = "extractPageSections"
            /\ Results[i].contentSummary = "summary"


\* ------------------------------------------------------------------- C13
\* C13: once the seed is accepted, the run never ends in a hard failure:
\* whatever fails (sitemap requests, page requests, extraction, AI step,
\* callback), the call does not throw, it can always take its next step, and
\* where it ends it has returned a list with one result per page it processed.
C13_NoHardFailure ==
    (entry # "none" /\ Parses(websiteUrl)) =>
        /\ pc # "threw"
        /\ pc # "done" => ENABLED Next
        /\ Done => Len(output) = Len(fetchLog)

\* C13 witness: a finished run with the callback in which a page threw in
\* extraction, a request got no response, a request was answered 404 and a
\* callback invocation was rejected.
C13_Witness ==
    /\ Done
    /\ hasCallback
    /\ \E i \in 1..Len(fetchLog) : fetchLog[i].outcome = ExtractionThrows
    /\ \E i \in 1..Len(fetchLog) : fetchLog[i].outcome = NoResponse
    /\ \E i \in 1..Len(fetchLog) : fetchLog[i].outcome = Response(404)
    /\ \E i \in 1..Len(cbLog) : cbLog[i].rejected
    /\ Len(output) = 3


\* ------------------------------------------------------------------- C14
\* C14: within one run no url appears in more than one result, in the
\* sitemap-driven loop as well as in the fallback crawl.
C14_NoUrlInTwoResults ==
    \A m, n \in 1..Len(Results) : m < n => Results[m].url # Results[n].url


\* ------------------------------------------------------------------- C15
\* the budget of the while-loop, and where the loop stops
C15_BudgetInv ==
    /\ Len(pages) <= maxPages
    /\ FallbackRun => Len(pages) = Len(fetchLog)
    /\ (Done /\ FallbackRun) =>
          /\ Len(output) <= maxPages
          /\ toVisit = <<>> \/ Len(output) = maxPages
    /\ (pc = "fallback" /\ toVisit # <<>> /\ Len(pages) < maxPages) =>
          /\ ENABLED (FallbackSkip \/ FallbackPage)
          /\ ~ENABLED FallbackDone
    /\ (pc = "fallback" /\ (toVisit = <<>> \/ Len(pages) = maxPages)) =>
          /\ ENABLED FallbackDone
          /\ ~ENABLED (FallbackSkip \/ FallbackPage)

\* C15: the fallback crawl always terminates; it stops exactly when the
\* queue is empty or the output holds maxPages results, degraded results
\* included, and never returns more than maxPages results.
C15_FallbackTerminatesWithinBudget ==
    []C15_BudgetInv /\ ((pc = "fallback") ~> Done)

\* C15 witness: a fallback crawl that stopped on its budget with urls left in
\* the queue, one of its results being a failed page.
C15_Witness ==
    /\ Done
    /\ FallbackRun
    /\ Len(output) = maxPages
    /\ toVisit # <<>>
    /\ \E i \in 1..Len(output) : output[i].failed


\* ------------------------------------------------------------------- C18
\* C18: a call whose seed does not parse as a URL throws before any network
\* activity: no sitemap request, no page request, no callback and no result.
C18_InvalidSeedRejectedFirst ==
    (entry # "none" /\ ~Parses(websiteUrl)) =>
        /\ pc = "threw"
        /\ ~sitemapFetches.sent
        /\ stack = <<>>
        /\ fetchLog = <<>>
        /\ cbLog = <<>>
        /\ processedPages = <<>> /\ pages = <<>> /\ output = <<>>

\* C18 witness: crawlWebsiteWithRealTimeUpdates was called with a string
\* that is not a URL and has thrown.
C18_Witness ==
    /\ pc = "threw"
    /\ entry = "realtime"
    /\ websiteUrl = BadStr


\* ------------------------------------------------------------------- C16
\* shouldCrawlUrl as a function of its argument and of this.baseUrl
OE == "https://example.com"
OO == "https://other.com"

PPage == <<"/", "p", "a", "g", "e">>
PFilePdf == <<"/", "f", "i", "l", "e", ".", "p", "d", "f">>
PWpAdminEdit == <<"/", "w", "p", "-", "a", "d", "m", "i", "n", "/", "e", "d", "i", "t">>
PBlogPost == <<"/", "b", "l", "o", "g", "/", "p", "o", "s", "t", "-", "1">>
PAdminUpper == <<"/", "A", "d", "m", "i", "n", "/", "x">>
PApiary == <<"/", "a", "p", "i", "a", "r", "y">>
PStyleCss == <<"/", "s", "t", "y", "l", "e", ".", "c", "s", "s">>
PPdfWord == <<"/", "p", "d", "f">>
PPdfDir == <<"/", "a", ".", "p", "d", "f", "/", "b">>
PInnerAdmin == <<"/", "x", "/", "a", "d", "m", "i", "n">>
PWpContent == <<"/", "w", "p", "-", "c", "o", "n", "t", "e", "n", "t", "/", "a", ".", "p", "n", "g">>
HSection == <<"s", "e", "c", "t", "i", "o", "n">>

ProbePaths ==
    {PNone, PRoot, PPdf, PPage, PFilePdf, PWpAdminEdit, PBlogPost, PAdminUpper,
     PApiary, PStyleCss, PPdfWord, PPdfDir, PInnerAdmin, PWpContent}

ProbeUrls ==
    {AbsH(o, p, h) : o \in {OE, OO}, p \in ProbePaths, h \in {<<>>, HSection}}
        \cup {Rel(PPage), BadStr, EmptyStr}

ProbeInit ==
    /\ site = "small"
    /\ CrawlIdle
    /\ xpc = "probe"
    /\ probeUrl \in ProbeUrls
    /\ probeBase \in {OE, OO}
    /\ verdict = FALSE
    /\ ExtractIdle
    /\ JobsIdle

\* const result = this.shouldCrawlUrl(url)
ApplyShouldCrawlUrl ==
    /\ xpc = "probe"
    /\ verdict' = shouldCrawlUrl(probeUrl, probeBase)
    /\ xpc' = "done"
    /\ UNCHANGED <<crawlVars, jobVars, probeUrl, probeBase, extractVars>>

ProbeNext == ApplyShouldCrawlUrl

ProbeSpec == ProbeInit /\ [][ProbeNext]_vars

\* the four conditions, each on the parsed argument
SameOrigin(url, base) == url.o = base
NoFragment(url) == url.h = <<>>
NonHtmlExtension(path) == \E e \in {skipExtensions[i] : i \in 1..Len(skipExtensions)} :
                              Len(path) >= Len(e) /\ SubSeq(path, Len(path) - Len(e) + 1, Len(path)) = e
SystemPrefix(path) == \E q \in {skipPaths[i] : i \in 1..Len(skipPaths)} :
                          Len(path) >= Len(q) /\ SubSeq(path, 1, Len(q)) = q

\* C16: shouldCrawlUrl returns true exactly when its argument parses as an
\* absolute URL of the run's origin, has no fragment, and has a (lower-cased)
\* path that neither ends in a non-HTML extension nor starts with an admin or
\* system prefix; an argument that does not parse gives false. For the origin
\* https://example.com it rejects /page#section, /file.pdf, /wp-admin/edit and
\* https://other.com/page, and accepts /blog/post-1.
C16_ShouldCrawlIffFourConditions ==
    xpc = "done" =>
        /\ verdict =
              /\ probeUrl.k = "abs"
              /\ SameOrigin(probeUrl, probeBase)
              /\ NoFragment(probeUrl)
              /\ ~NonHtmlExtension(ToLowerCase(Pathname(probeUrl)))
              /\ ~SystemPrefix(ToLowerCase(Pathname(probeUrl)))
        /\ probeBase = OE =>
              /\ probeUrl = AbsH(OE, PPage, HSection) => verdict = FALSE
              /\ probeUrl = Abs(OE, PFilePdf) => verdict = FALSE
              /\ probeUrl = Abs(OO, PPage) => verdict = FALSE
              /\ probeUrl = Abs(OE, PWpAdminEdit) => verdict = FALSE
              /\ probeUrl = Abs(OE, PBlogPost) => verdict = TRUE
        /\ probeUrl \in {BadStr, EmptyStr, Rel(PPage)} => verdict = FALSE

\* C16 witness: the call on https://example.com/blog/post-1 returned true
\* for the origin https://example.com.
C16_Witness ==
    /\ xpc = "done"
    /\ probeBase = OE
    /\ probeUrl = Abs(OE, PBlogPost)
    /\ verdict = TRUE


\* ------------------------------------------------------ text of a document
\* the characters \s matches
IsSpace(c) == c \in {" ", "\n", "\t"}

RECURSIVE TrimStart(_)
TrimStart(s) == IF s # <<>> /\ IsSpace(Head(s)) THEN TrimStart(Tail(s)) ELSE s

RECURSIVE TrimEnd(_)
TrimEnd(s) ==
    IF s # <<>> /\ IsSpace(s[Len(s)]) THEN TrimEnd(SubSeq(s, 1, Len(s) - 1)) ELSE s

\* String.prototype.trim
Trim(s) == TrimEnd(TrimStart(s))

\* s.replace(/\s+/g, ' ')
RECURSIVE CollapseSpaces(_)
CollapseSpaces(s) ==
    IF s = <<>> THEN <<>>
    ELSE IF IsSpace(Head(s))
         THEN <<" ">> \o CollapseSpaces(TrimStart(s))
         ELSE <<Head(s)>> \o CollapseSpaces(Tail(s))

\* String.prototype.includes
Includes(s, sub) ==
    \E k \in 0..(Len(s) - Len(sub)) : SubSeq(s, k + 1, k + Len(sub)) = sub

\* the strings of a list, one after the other
RECURSIVE Concat(_)
Concat(list) == IF list = <<>> THEN <<>> ELSE Head(list) \o Concat(Tail(list))

\* Array.prototype.join
RECURSIVE Join(_, _)
Join(list, sep) ==
    IF list = <<>> THEN <<>>
    ELSE IF Len(list) = 1 THEN list[1]
    ELSE list[1] \o sep \o Join(Tail(list), sep)

\* the characters of a URL string: the origin is one token
UrlChars(u) ==
    (IF u.k = "abs" THEN <<u.o>> ELSE <<>>) \o u.p
        \o (IF u.h # <<>> THEN <<"#">> \o u.h ELSE <<>>)

\* truncateText(text, maxLength)
truncateText(text, maxLength) ==
    IF text = <<>> THEN <<>>
    ELSE IF Len(text) > maxLength THEN Take(text, maxLength) \o <<".", ".", ".">>
    ELSE text

\* -------------------------------------------------------------- documents
\* The document $ is the sequence of the children of <body>. An element is
\* [tag, cls, text, links, kids, src, alt]: its class names, its own text,
\* the texts of the <a> elements inside its own text, its child elements,
\* which have no child elements themselves, and its src and alt attributes
\* (the empty string when it has none). Elements carry no id or role
\* attribute.
Leaf(tag, text) ==
    [tag |-> tag, cls |-> {}, text |-> text, links |-> <<>>, kids |-> <<>>,
     src |-> EmptyStr, alt |-> <<>>]
LeafOfClass(tag, cls, text) ==
    [tag |-> tag, cls |-> cls, text |-> text, links |-> <<>>, kids |-> <<>>,
     src |-> EmptyStr, alt |-> <<>>]
LinkBlock(tag, linkTexts) ==
    [tag |-> tag, cls |-> {}, text |-> Concat(linkTexts), links |-> linkTexts,
     kids |-> <<>>, src |-> EmptyStr, alt |-> <<>>]
Elem(tag, cls, kids) ==
    [tag |-> tag, cls |-> cls, text |-> <<>>, links |-> <<>>, kids |-> kids,
     src |-> EmptyStr, alt |-> <<>>]
\* <img src=... alt=...>
Img(src, alt) ==
    [tag |-> "img", cls |-> {}, text |-> <<>>, links |-> <<>>, kids |-> <<>>,
     src |-> src, alt |-> alt]

\* $(el).text(): the text of the element and of its descendants
Text(n) == n.text \o Concat([k \in 1..Len(n.kids) |-> n.kids[k].text])

\* parseInt(tagName.charAt(1)) of a heading element, 0 for other elements
HeadingLevel(tag) ==
    CASE tag = "h1" -> 1 [] tag = "h2" -> 2 [] tag = "h3" -> 3
      [] tag = "h4" -> 4 [] tag = "h5" -> 5 [] tag = "h6" -> 6
      [] OTHER -> 0

IsHeading(n) == HeadingLevel(n.tag) > 0

\* the elements of the document in document order, each with its place:
\* top is its index (or its parent's) among the children of <body>, sub its
\* index among its parent's children (0 for a child of <body>)
RECURSIVE ElementsFrom(_, _)
ElementsFrom(d, i) ==
    IF i > Len(d) THEN <<>>
    ELSE <<[el |-> d[i], top |-> i, sub |-> 0]>>
            \o [k \in 1..Len(d[i].kids) |-> [el |-> d[i].kids[k], top |-> i, sub |-> k]]
            \o ElementsFrom(d, i + 1)

Elements(d) == ElementsFrom(d, 1)

\* the siblings of an element, itself included
SiblingsOf(d, e) == IF e.sub = 0 THEN d ELSE d[e.top].kids

\* the index of an element among its siblings
IndexOf(e) == IF e.sub = 0 THEN e.top ELSE e.sub

\* position: position++ over the sections pushed by one method
WithPositions(list, startPosition) ==
    [k \in 1..Len(list) |-> [list[k] EXCEPT !.position = startPosition + k - 1]]


\* A section is [type, level, title, content, position]; level is 0 where
\* PageSection has none. at is not a field of PageSection: it records the
\* document index (in Elements) of the element the section was made from.
Section(type, level, title, content, at) ==
    [type |-> type, level |-> level, title |-> title, content |-> content,
     position |-> 0, at |-> at]

\* --------------------------------------- createSectionsFromExactContent($)
\* a heading ends the section of an earlier heading only if it is of a
\* strictly higher level
StopsSectionStrict(nextLevel, level) == nextLevel < level

\* if (nextLevel <= level) break
StopsSection(nextLevel, level) == nextLevel <= level

\* the while ($next.length > 0) loop from the sibling at index k
RECURSIVE SectionContent(_, _, _)
SectionContent(sibs, k, level) ==
    IF k > Len(sibs) THEN <<>>
    ELSE IF IsHeading(sibs[k]) /\ StopsSection(HeadingLevel(sibs[k].tag), level)
    THEN <<>>
    ELSE LET text == Trim(Text(sibs[k]))
         IN  (IF text # <<>> /\ Len(text) > 10 THEN text \o <<"\n">> ELSE <<>>)
                \o SectionContent(sibs, k + 1, level)

\* $('h1, h2, h3, h4, h5, h6').each(...) from the element at document index k
RECURSIVE HeadingSectionsFrom(_, _)
HeadingSectionsFrom(d, k) ==
    IF k > Len(Elements(d)) THEN <<>>
    ELSE LET e == Elements(d)[k]
             headingText == Trim(Text(e.el))
             level == HeadingLevel(e.el.tag)
         IN  (IF IsHeading(e.el) /\ headingText # <<>>
              THEN <<Section("heading", level, headingText,
                             Trim(SectionContent(SiblingsOf(d, e), IndexOf(e) + 1, level)),
                             k)>>
              ELSE <<>>)
                \o HeadingSectionsFrom(d, k + 1)

\* $p.prevAll('h1, h2, h3, h4, h5, h6').length > 0
hasParentHeading(d, e) ==
    \E j \in 1..(IndexOf(e) - 1) : IsHeading(SiblingsOf(d, e)[j])

ParagraphTitle == <<"P", "a", "r", "a", "g", "r", "a", "p", "h">>

\* $('p').each(...) from the element at document index k
RECURSIVE ParagraphSectionsFrom(_, _)
ParagraphSectionsFrom(d, k) ==
    IF k > Len(Elements(d)) THEN <<>>
    ELSE LET e == Elements(d)[k]
             text == Trim(Text(e.el))
         IN  (IF e.el.tag = "p" /\ text # <<>> /\ Len(text) > 20
                    /\ ~hasParentHeading(d, e)
              THEN <<Section("content", 0, ParagraphTitle, text, k)>>
              ELSE <<>>)
                \o ParagraphSectionsFrom(d, k + 1)

createSectionsFromExactContent(d) ==
    WithPositions(HeadingSectionsFrom(d, 1) \o ParagraphSectionsFrom(d, 1), 0)


\* ------------------------------------------------- extractPageSections($)
\* .first(): the smallest of the document indexes of the elements that
\* match, 0 when there is none
FirstIndex(hits) ==
    IF hits = {} THEN 0
    ELSE CHOOSE k \in hits : \A h \in hits : k <= h

\* Set insertion order: the first occurrence of each string
RECURSIVE Distinct(_)
Distinct(list) ==
    IF list = <<>> THEN <<>>
    ELSE LET front == Distinct(SubSeq(list, 1, Len(list) - 1))
             last == list[Len(list)]
         IN  IF \E k \in 1..Len(front) : front[k] = last THEN front
             ELSE Append(front, last)

\* the characters U+1F51D, U+1F4DD, U+1F53D, U+00A9 and U+1F5BC U+FE0F
PictureSign == "U+1F5BC U+FE0F"
TopSign == "U+1F51D"
MemoSign == "U+1F4DD"
DownSign == "U+1F53D"
CopyrightSign == "U+00A9"

HeaderTitle == <<TopSign, " ">> \o <<"H", "E", "A", "D", "E", "R", " ", "S", "E", "C", "T", "I", "O", "N">>
FooterTitle == <<DownSign, " ">> \o <<"F", "O", "O", "T", "E", "R", " ", "S", "E", "C", "T", "I", "O", "N">>
NoContentMarker == <<"N", "o", " ", "d", "e", "t", "a", "i", "l", "e", "d", " ", "c", "o", "n", "t", "e", "n", "t", " ", "f", "o", "u", "n", "d", " ", "f", "o", "r", " ", "t", "h", "i", "s", " ", "s", "e", "c", "t", "i", "o", "n">>

\* 'header, .header, #header, #site-header, .site-header'
IsHeaderElement(d, e) ==
    e.el.tag = "header" \/ e.el.cls \cap {"header", "site-header"} # {}

\* $header.find('a, .menu-item') with $(linkEl).text().trim() of each
RECURSIVE LinkTextsFrom(_, _)
LinkTextsFrom(kids, k) ==
    IF k > Len(kids) THEN <<>>
    ELSE (IF kids[k].tag = "a" \/ "menu-item" \in kids[k].cls
          THEN <<Trim(Text(kids[k]))>> ELSE <<>>)
            \o [j \in 1..Len(kids[k].links) |-> Trim(kids[k].links[j])]
            \o LinkTextsFrom(kids, k + 1)

LinkTexts(n) == [j \in 1..Len(n.links) |-> Trim(n.links[j])] \o LinkTextsFrom(n.kids, 1)

\* the link texts that go into navLinksSet
RECURSIVE NavLinkFilter(_)
NavLinkFilter(list) ==
    IF list = <<>> THEN <<>>
    ELSE (IF Head(list) # <<>> /\ Len(Head(list)) > 1 /\ Len(Head(list)) < 50
          THEN <<Head(list)>> ELSE <<>>) \o NavLinkFilter(Tail(list))

\* $header.clone().find('nav, .nav, .menu').remove().end().text()
RECURSIVE TextWithoutNav(_, _)
TextWithoutNav(kids, k) ==
    IF k > Len(kids) THEN <<>>
    ELSE (IF kids[k].tag = "nav" \/ kids[k].cls \cap {"nav", "menu"} # {}
          THEN <<>> ELSE Text(kids[k]))
            \o TextWithoutNav(kids, k + 1)

extractHeaderContent(d, startPosition) ==
    LET k == FirstIndex({x \in 1..Len(Elements(d)) : IsHeaderElement(d, Elements(d)[x])})
    IN  IF k = 0 THEN <<>>
        ELSE LET header == Elements(d)[k].el
                 navLinks == Distinct(NavLinkFilter(LinkTexts(header)))
                 headerText == CollapseSpaces(Trim(header.text \o TextWithoutNav(header.kids, 1)))
                 content ==
                    Join((IF headerText # <<>>
                          THEN <<<<"H", "e", "a", "d", "e", "r", " ", "T", "e", "x", "t", ":", " ">> \o headerText>>
                          ELSE <<>>)
                            \o (IF Len(navLinks) > 0
                                THEN <<<<"N", "a", "v", "i", "g", "a", "t", "i", "o", "n", ":", " ">>
                                          \o Join(navLinks, <<" ", "|", " ">>)>>
                                ELSE <<>>),
                         <<"\n">>)
             IN  IF Len(navLinks) > 0 \/ Len(headerText) > 10
                 THEN WithPositions(<<Section("navigation", 0, HeaderTitle, content, k)>>,
                                    startPosition)
                 ELSE <<>>


\* the entries of mainSelectors, in their order
mainSelectors ==
    <<"main#main", "main.site-main", "main[role=main]", "main", ".main-content",
      "#main-content", ".entry-content", ".post-content", "article .content">>

\* the element matches the selector (no element has an id or a role)
MatchesSelector(selector, d, e) ==
    CASE selector = "main.site-main" -> e.el.tag = "main" /\ "site-main" \in e.el.cls
      [] selector = "main" -> e.el.tag = "main"
      [] selector = ".main-content" -> "main-content" \in e.el.cls
      [] selector = ".entry-content" -> "entry-content" \in e.el.cls
      [] selector = ".post-content" -> "post-content" \in e.el.cls
      [] selector = "article .content" ->
            e.sub > 0 /\ d[e.top].tag = "article" /\ "content" \in e.el.cls
      [] OTHER -> FALSE

\* $(selector).first() of the first selector that matches anything: the
\* document index of $main, 0 when no selector matches
RECURSIVE MainIndexFrom(_, _)
MainIndexFrom(d, s) ==
    IF s > Len(mainSelectors) THEN 0
    ELSE LET k == FirstIndex({x \in 1..Len(Elements(d)) :
                                MatchesSelector(mainSelectors[s], d, Elements(d)[x])})
         IN  IF k # 0 THEN k ELSE MainIndexFrom(d, s + 1)

IsWidgetContainer(n) ==
    n.cls \cap {"elementor-widget-container", "elementor-text-editor"} # {}

\* $contentContainer.each(...) over the containers inside $next: an element
\* of the document has no list items or paragraphs inside a container, so a
\* container gives its raw text
RECURSIVE ContainerTextFrom(_, _)
ContainerTextFrom(kids, k) ==
    IF k > Len(kids) THEN <<>>
    ELSE LET rawText == Trim(Text(kids[k]))
         IN  (IF IsWidgetContainer(kids[k]) /\ rawText # <<>> /\ Len(rawText) > 10
              THEN rawText \o <<"\n">> ELSE <<>>)
                \o ContainerTextFrom(kids, k + 1)

\* `${alt}: ${fullSrc}` after the picture sign, for an image with a src: a
\* src that does not start with http is appended to a fixed origin
InlineImage(img) ==
    LET alt == IF img.alt # <<>> THEN img.alt ELSE <<"I", "m", "a", "g", "e">>
        fullSrc == IF img.src.k = "abs" THEN UrlChars(img.src)
                   ELSE <<"https://www.ssfplastics.com">> \o UrlChars(img.src)
    IN  <<PictureSign, " ">> \o alt \o <<":", " ">> \o fullSrc

\* $next.find('img').each(...): the entries one sibling adds to images
InlineImagesOf(n) ==
    LET imgs == SelectSeq(n.kids, LAMBDA kid : kid.tag = "img" /\ kid.src.k # "empty")
    IN  [j \in 1..Len(imgs) |-> InlineImage(imgs[j])]

\* the while ($next.length && attempts < 5) loop from the sibling at index k;
\* found is [content, images]
RECURSIVE NextSiblingsContent(_, _, _, _)
NextSiblingsContent(d, k, attempts, found) ==
    IF k > Len(d) \/ attempts >= 5 THEN found
    ELSE LET more == [content |-> found.content \o ContainerTextFrom(d[k].kids, 1),
                      images |-> found.images \o InlineImagesOf(d[k])]
         IN  IF Len(more.content) > 2000 THEN more
             ELSE NextSiblingsContent(d, k + 1, attempts + 1, more)

\* the containers of $headingParent other than the heading's own, from the
\* child at index k of the parent
RECURSIVE ParentContainersContent(_, _, _, _)
ParentContainersContent(kids, k, own, content) ==
    IF k > Len(kids) THEN content
    ELSE LET containerText == Trim(Text(kids[k]))
             more == IF "elementor-widget-container" \in kids[k].cls /\ k # own
                        /\ containerText # <<>> /\ Len(containerText) > 10
                        /\ ~Includes(content, containerText)
                     THEN content \o containerText \o <<"\n">>
                     ELSE content
         IN  ParentContainersContent(kids, k + 1, own, more)

IsElementorElement(n) ==
    n.cls \cap {"elementor-element", "elementor-container"} # {}

\* the section of the heading that is child j of $main, $main being child t
\* of <body>; at is the document index of the heading
MainHeadingSection(d, t, j, at) ==
    LET heading == d[t].kids[j]
        level == HeadingLevel(heading.tag)
        title == Trim(Text(heading))
        found == NextSiblingsContent(d, t + 1, 0, [content |-> <<>>, images |-> <<>>])
        fromNext == found.content
        images == found.images
        own == IF "elementor-widget-container" \in heading.cls THEN j ELSE 0
        withParent ==
            IF IsElementorElement(heading) THEN fromNext
            ELSE IF IsElementorElement(d[t])
                 THEN ParentContainersContent(d[t].kids, 1, own, fromNext)
                 ELSE fromNext
        content == CollapseSpaces(Trim(withParent))
        fullContent ==
            IF content # <<>> /\ Len(content) > 10
            THEN content \o (IF Len(images) > 0
                             THEN <<"\n", "\n">> \o Join(images, <<"\n">>) ELSE <<>>)
            ELSE IF Len(images) > 0 THEN Join(images, <<"\n">>) ELSE NoContentMarker
    IN  IF title # <<>>
            /\ ~Includes(ToLowerCase(title), <<"a", "b", "o", "u", "t", " ", "u", "s">>)
            /\ ~Includes(ToLowerCase(title), <<"q", "u", "i", "c", "k", " ", "l", "i", "n", "k", "s">>)
        THEN <<Section("heading", level, <<MemoSign, " ">> \o title, fullContent, at)>>
        ELSE <<>>

\* $main.find('h1, h2, h3, h4, h5, h6').each(...) from child j of $main
RECURSIVE MainHeadingsFrom(_, _, _, _)
MainHeadingsFrom(d, t, j, m) ==
    IF j > Len(d[t].kids) THEN <<>>
    ELSE (IF IsHeading(d[t].kids[j]) THEN MainHeadingSection(d, t, j, m + j) ELSE <<>>)
            \o MainHeadingsFrom(d, t, j + 1, m)

extractMainContent(d, startPosition) ==
    LET m == MainIndexFrom(d, 1)
    IN  IF m = 0 THEN <<>>
        ELSE LET e == Elements(d)[m]
             IN  IF e.sub # 0 THEN <<>>
                 ELSE WithPositions(MainHeadingsFrom(d, e.top, 1, m), startPosition)

\* 'footer, .footer, #footer, .site-footer'
IsFooterElement(d, e) ==
    e.el.tag = "footer" \/ e.el.cls \cap {"footer", "site-footer"} # {}

\* a footer that keeps the blocks with links in them
KeepsFooterBlockWithLinks(node) == node.tag \in {"p", "div"}

\* $node.is('p, div') && !$node.find('a').length
KeepsFooterBlock(node) == node.tag \in {"p", "div"} /\ Len(node.links) = 0

\* $footer.contents().each(...) from the child at index k
RECURSIVE FooterTextFrom(_, _)
FooterTextFrom(kids, k) ==
    IF k > Len(kids) THEN <<>>
    ELSE LET text == Trim(Text(kids[k]))
         IN  (IF KeepsFooterBlock(kids[k])
                    /\ (\/ Includes(text, <<CopyrightSign>>)
                        \/ Includes(text, <<"c", "o", "p", "y", "r", "i", "g", "h", "t">>)
                        \/ Includes(text, <<"@">>)
                        \/ Includes(text, <<"+", "9", "1">>))
              THEN text \o <<" ">> ELSE <<>>)
                \o FooterTextFrom(kids, k + 1)

extractFooterContent(d, startPosition) ==
    LET k == FirstIndex({x \in 1..Len(Elements(d)) : IsFooterElement(d, Elements(d)[x])})
    IN  IF k = 0 THEN <<>>
        ELSE LET footerText == CollapseSpaces(Trim(FooterTextFrom(Elements(d)[k].el.kids, 1)))
             IN  IF footerText # <<>> /\ Len(footerText) > 20
                 THEN WithPositions(<<Section("navigation", 0, FooterTitle,
                                              truncateText(footerText, 300), k)>>,
                                    startPosition)
                 ELSE <<>>

extractPageSections(d) ==
    LET withHeader == extractHeaderContent(d, 0)
        withMain == withHeader \o extractMainContent(d, Len(withHeader))
    IN  withMain \o extractFooterContent(d, Len(withMain))


\* --------------------------------------------- extractImages($, currentUrl)
\* an image has no title, width or height attribute
extractImages(d, currentUrl) ==
    LET imgs == SelectSeq(Elements(d),
                          LAMBDA e : e.el.tag = "img" /\ e.el.src.k # "empty")
    IN  [j \in 1..Len(imgs) |->
            [src |-> resolveUrl(imgs[j].el.src, currentUrl), alt |-> imgs[j].el.alt,
             title |-> <<>>, position |-> j - 1]]

\* ------------------------------------- extractExactContentInOrder($, url)
\* the characters U+1F9ED, U+1F4CE, U+1F4CB, U+1F4E6, U+1F4F7, U+1F4CA and
\* U+2022
CompassSign == "U+1F9ED"
ClipSign == "U+1F4CE"
ClipboardSign == "U+1F4CB"
PackageSign == "U+1F4E6"
CameraSign == "U+1F4F7"
ChartSign == "U+1F4CA"
BulletSign == "U+2022"

\* tagName.toUpperCase() of the list and heading tags
UpperTag(tag) ==
    CASE tag = "ul" -> <<"U", "L">> [] tag = "ol" -> <<"O", "L">>
      [] tag = "h1" -> <<"H", "1">> [] tag = "h2" -> <<"H", "2">> [] tag = "h3" -> <<"H", "3">>
      [] tag = "h4" -> <<"H", "4">> [] tag = "h5" -> <<"H", "5">> [] tag = "h6" -> <<"H", "6">>
      [] OTHER -> <<tag>>

\* `${n}` of a natural number
RECURSIVE Digits(_)
Digits(n) ==
    LET digit == <<"0", "1", "2", "3", "4", "5", "6", "7", "8", "9">>[(n % 10) + 1]
    IN  IF n < 10 THEN <<digit>> ELSE Digits(n \div 10) \o <<digit>>

\* s.replace(/\n{3,}/g, '\n\n') for the characters lo..hi of s: a newline
\* that follows two newlines is dropped
RECURSIVE CollapseNewlinesIn(_, _, _)
CollapseNewlinesIn(s, lo, hi) ==
    IF lo > hi THEN <<>>
    ELSE IF lo = hi
         THEN (IF s[lo] = "\n" /\ lo > 2 /\ s[lo - 1] = "\n" /\ s[lo - 2] = "\n"
               THEN <<>> ELSE <<s[lo]>>)
         ELSE LET mid == (lo + hi) \div 2
              IN  CollapseNewlinesIn(s, lo, mid) \o CollapseNewlinesIn(s, mid + 1, hi)

CollapseNewlines(s) == CollapseNewlinesIn(s, 1, Len(s))

\* $el.find('a') with $link.text().trim() of each; the links of a document
\* have no href
NavLinkTexts(n) ==
    [j \in 1..Len(n.links) |-> Trim(n.links[j])]
        \o Concat([k \in 1..Len(n.kids) |->
                    (IF n.kids[k].tag = "a" THEN <<Trim(Text(n.kids[k]))>> ELSE <<>>)
                        \o [j \in 1..Len(n.kids[k].links) |-> Trim(n.kids[k].links[j])]])

\* 'header, nav, .header, .navigation, .navbar, .menu'
IsNavigationElement(n) ==
    n.tag \in {"header", "nav"} \/ n.cls \cap {"header", "navigation", "navbar", "menu"} # {}

\* the entries one navigation element adds to navContent
NavigationEntries(n) ==
    LET text == Trim(Text(n))
        linkTexts == NavLinkTexts(n)
        kept == SelectSeq(linkTexts, LAMBDA linkText : linkText # <<>> /\ Len(linkText) > 2)
    IN  (IF text # <<>> /\ Len(text) > 10 THEN <<text>> ELSE <<>>)
            \o [j \in 1..Len(kept) |-> <<ClipSign, " ">> \o kept[j]]

\* extractNavigationElements($, url)
extractNavigationElements(d) ==
    LET els == Elements(d)
    IN  Join(Concat([k \in 1..Len(els) |->
                        IF IsNavigationElement(els[k].el)
                        THEN NavigationEntries(els[k].el) ELSE <<>>]),
             <<"\n">>)

\* `${tagName}_${text.substring(0, 30)}`: the prefix is one token
Fingerprint(prefix, text) == <<prefix, "_">> \o Take(text, 30)

\* if (!processedElements.has(id)) { content.push(block); processedElements.add(id) }
PushOnce(acc, id, block) ==
    IF id \in acc.processedElements THEN acc
    ELSE [content |-> Append(acc.content, block),
          processedElements |-> acc.processedElements \cup {id}]

\* extractListContent($el, content, processedElements, tagName)
extractListContent(n, acc) ==
    LET items == SelectSeq(n.kids, LAMBDA kid : kid.tag = "li")
        lines == [index \in 1..Len(items) |->
                    LET itemText == Trim(Text(items[index]))
                        bullet == IF n.tag = "ul" THEN <<BulletSign>>
                                  ELSE Digits(index) \o <<".">>
                    IN  IF itemText # <<>> /\ Len(itemText) > 2
                        THEN <<<<" ", " ">> \o bullet \o <<" ">> \o itemText>> ELSE <<>>]
        listItems == Concat(lines)
    IN  IF Len(listItems) > 0
        THEN PushOnce(acc, Fingerprint("list", listItems[1]),
                      <<"\n", ClipboardSign>> \o <<" ", "=", "=", "=", " ">> \o UpperTag(n.tag)
                          \o <<" ", "L", "I", "S", "T", " ", "=", "=", "=", "\n">> \o Join(listItems, <<"\n">>) \o <<"\n">>)
        ELSE acc

\* extractDivContent($el, $, content, processedElements, url)
extractDivContent(n, acc) ==
    LET divText == Trim(Text(n))
        hasHeadings == \E k \in 1..Len(n.kids) : IsHeading(n.kids[k])
        hasList == \E k \in 1..Len(n.kids) : n.kids[k].tag \in {"ul", "ol"}
        hasImages == \E k \in 1..Len(n.kids) : n.kids[k].tag = "img"
    IN  IF divText # <<>> /\ Len(divText) > 20
        THEN PushOnce(acc, Fingerprint("div", divText),
                      IF hasHeadings \/ hasList \/ hasImages
                      THEN <<"\n", PackageSign>> \o <<" ", "=", "=", "=", " ", "D", "I", "V", " ", "S", "E", "C", "T", "I", "O", "N", " ", "=", "=", "=", "\n">>
                              \o divText \o <<"\n">>
                      ELSE divText)
        ELSE acc

\* extractHeadingContent($el, content, processedElements, tagName)
extractHeadingContent(n, acc) ==
    LET headingText == Trim(Text(n))
    IN  IF headingText # <<>> /\ Len(headingText) > 2
        THEN PushOnce(acc, Fingerprint(n.tag, headingText),
                      <<"\n", "=", "=", "=", " ">> \o UpperTag(n.tag) \o <<" ", "H", "E", "A", "D", "I", "N", "G", " ", "=", "=", "=", "\n">>
                          \o headingText \o <<"\n">>)
        ELSE acc

\* extractParagraphContent($el, content, processedElements)
extractParagraphContent(n, acc) ==
    LET paragraphText == Trim(Text(n))
    IN  IF paragraphText # <<>> /\ Len(paragraphText) > 10
        THEN PushOnce(acc, Fingerprint("p", paragraphText),
                      <<"\n">> \o paragraphText \o <<"\n">>)
        ELSE acc

\* src.startsWith('http') ? src : new URL(src, url).href
AbsoluteSrc(src, url) == IF src.k = "abs" THEN src ELSE resolveUrl(src, url)

\* extractImageContent($el, content, url); an image has no title attribute
extractImageContent(n, acc, url) ==
    LET alt == IF n.alt # <<>> THEN n.alt ELSE <<"N", "o", " ", "a", "l", "t", " ", "t", "e", "x", "t">>
    IN  IF n.src.k # "empty"
        THEN [acc EXCEPT !.content =
                Append(@, <<"\n", PictureSign>> \o <<" ", "I", "M", "A", "G", "E", ":", " ">> \o alt
                              \o <<"\n", CameraSign>> \o <<" ", "U", "R", "L", ":", " ">>
                              \o UrlChars(AbsoluteSrc(n.src, url)) \o <<"\n">>)]
        ELSE acc

\* extractTableContent($el, content, processedElements)
extractTableContent(n, acc) ==
    LET tableText == Trim(Text(n))
    IN  IF tableText # <<>> /\ Len(tableText) > 20
        THEN PushOnce(acc, Fingerprint("table", tableText),
                      <<"\n", ChartSign>> \o <<" ", "=", "=", "=", " ", "T", "A", "B", "L", "E", " ", "C", "O", "N", "T", "E", "N", "T", " ", "=", "=", "=", "\n">>
                          \o tableText \o <<"\n">>)
        ELSE acc

\* the tags walkElementsInOrder passes over, with what is inside them
skippedTags == {"script", "style", "noscript", "meta", "link", "head", "nav", "header"}

\* the branch of walkElementsInOrder for one element
WalkElement(n, acc, url) ==
    CASE n.tag \in {"ul", "ol"} -> extractListContent(n, acc)
      [] n.tag = "div" -> extractDivContent(n, acc)
      [] IsHeading(n) -> extractHeadingContent(n, acc)
      [] n.tag = "p" -> extractParagraphContent(n, acc)
      [] n.tag = "img" -> extractImageContent(n, acc, url)
      [] n.tag = "table" -> extractTableContent(n, acc)
      [] OTHER ->
            LET allText == Trim(Text(n))
            IN  IF allText # <<>> /\ Len(allText) > 10
                THEN PushOnce(acc, Fingerprint(n.tag, allText), allText)
                ELSE acc

\* walkElementsInOrder($parent, $, content, processedElements, url) from the
\* child at index k of $parent
RECURSIVE walkElementsInOrder(_, _, _, _)
walkElementsInOrder(children, k, acc, url) ==
    IF k > Len(children) THEN acc
    ELSE IF children[k].tag \in skippedTags
         THEN walkElementsInOrder(children, k + 1, acc, url)
         ELSE walkElementsInOrder(children, k + 1,
                  walkElementsInOrder(children[k].kids, 1,
                                      WalkElement(children[k], acc, url), url),
                  url)

\* the content array of extractExactContentInOrder at the time of the join
ExactContentEntries(d, url) ==
    LET navigationContent == extractNavigationElements(d)
        start == IF navigationContent # <<>>
                 THEN << <<"\n", CompassSign>> \o <<" ", "=", "=", "=", " ", "N", "A", "V", "I", "G", "A", "T", "I", "O", "N", " ", "E", "L", "E", "M", "E", "N", "T", "S", " ", "=", "=", "=", "\n">>
                            \o navigationContent \o <<"\n">> >>
                 ELSE <<>>
    IN  walkElementsInOrder(d, 1, [content |-> start, processedElements |-> {}], url).content

\* extractExactContentInOrder($, url): the array and the string it returns
extractExactContentInOrder(d, url) ==
    LET content == ExactContentEntries(d, url)
    IN  [content |-> content,
         finalContent |-> Trim(CollapseNewlines(Join(content, <<"\n">>)))]

\* -------------------------------------------------------- input documents
MaxNodes == 3

TextA == <<"A">>
TextB == <<"B">>
TextC == <<"C">>
TextX == <<"x">>
TextY == <<"y">>
TextLong == <<"A", " ", "p", "a", "r", "a", "g", "r", "a", "p", "h", " ", "o", "f", " ", "p", "l", "a", "i", "n", " ", "t", "e", "x", "t", ".">>
TextProducts == <<"O", "u", "r", " ", "P", "r", "o", "d", "u", "c", "t", "s">>
TextPipes == <<"P", "i", "p", "e", "s", " ", "a", "n", "d", " ", "f", "i", "t", "t", "i", "n", "g", "s", ".">>
TextStrong == <<" ", "S", "t", "r", "o", "n", "g", " ", "p", "i", "p", "e", "s", ",", " ", " ", "m", "a", "d", "e", " ", "o", "f", " ", "p", "l", "a", "s", "t", "i", "c", ".", " ">>
TextHome == <<"H", "o", "m", "e">>
TextAbout == <<"A", "b", "o", "u", "t">>
TextTerms == <<"T", "e", "r", "m", "s">>
TextMail == <<"m", "a", "i", "l", "@", "a", "c", "m", "e", ".", "e", "x", "a", "m", "p", "l", "e", " ", "f", "o", "r", " ", "c", "o", "n", "t", "a", "c", "t">>
CopyrightShort == <<CopyrightSign>> \o <<" ", "2", "0", "2", "4", " ", "A", "c", "m", "e">>
CopyrightLong == <<CopyrightSign>> \o <<" ", "2", "0", "2", "4", " ", "A", "c", "m", "e", " ", "C", "o", "r", "p", "o", "r", "a", "t", "i", "o", "n", " ", "L", "t", "d">>

H1A == Leaf("h1", TextA)
H1B == Leaf("h1", TextB)
H2C == Leaf("h2", TextC)
PX == Leaf("p", TextX)
PY == Leaf("p", TextY)
PLong == Leaf("p", TextLong)

FlatNodes == {H1A, H1B, H2C, PX, PLong}

\* <body> with up to MaxNodes headings and paragraphs
FlatDocs == UNION {[1..n -> FlatNodes] : n \in 1..MaxNodes}

\* <h1>A</h1><p>x</p><h1>B</h1><p>y</p>
HeadingFixture == <<H1A, PX, H1B, PY>>

HeaderNav == Elem("header", {}, <<LinkBlock("nav", <<TextHome, TextAbout>>)>>)
MainFixture == Elem("main", {}, HeadingFixture)
MainBuilder ==
    Elem("main", {"site-main", "elementor-element"},
         <<Leaf("h2", TextProducts),
           LeafOfClass("div", {"elementor-widget-container"}, TextPipes)>>)
WidgetSibling ==
    Elem("div", {}, <<LeafOfClass("div", {"elementor-widget-container"}, TextStrong)>>)

\* <footer><p>(c) 2024 Acme</p><nav><a href="/x">X</a></nav></footer>
FooterFixture ==
    Elem("footer", {}, <<Leaf("p", CopyrightShort), LinkBlock("nav", <<TextX>>)>>)
FooterLong ==
    Elem("footer", {}, <<Leaf("p", CopyrightLong), LinkBlock("nav", <<TextX>>)>>)
\* a copyright paragraph with a link in it, and a contact paragraph
FooterLinked ==
    Elem("footer", {},
         <<[tag |-> "p", cls |-> {}, text |-> CopyrightLong \o <<" ">> \o TextTerms,
            links |-> <<TextTerms>>, kids |-> <<>>, src |-> EmptyStr, alt |-> <<>>],
           Leaf("p", TextMail)>>)

TextLogo == <<"L", "o", "g", "o">>
PAbout == <<"/", "a", "b", "o", "u", "t">>
PImgA == <<"/", "i", "m", "g", "/", "a", ".", "p", "n", "g">>

\* <img src="/img/a.png" alt="Logo">, an image of another site, and an image
\* without src
ImgRel == Img(Rel(PImgA), TextLogo)
ImgAbs == Img(Abs(OB, PImgA), <<>>)
ImgNoSrc == Img(EmptyStr, TextLogo)

\* siblings of main with images
WidgetWithImage ==
    Elem("div", {},
         <<LeafOfClass("div", {"elementor-widget-container"}, TextStrong), ImgRel>>)
ImageSibling == Elem("div", {}, <<ImgRel, ImgAbs, ImgNoSrc>>)

\* header, main, the sibling of main and footer, each there or not
StructuredDocs ==
    {h \o m \o w \o f :
        h \in {<<>>, <<HeaderNav>>},
        m \in {<<>>, <<MainFixture>>, <<MainBuilder>>},
        w \in {<<>>, <<WidgetSibling>>, <<WidgetWithImage>>, <<ImageSibling>>},
        f \in {<<>>, <<FooterFixture>>, <<FooterLong>>, <<FooterLinked>>}}

\* <div><p>A paragraph of plain text.</p></div>
WrapperDiv == Elem("div", {}, <<PLong>>)
WrapperSection == Elem("section", {}, <<PLong>>)
ListOfTwo(tag) == Elem(tag, {}, <<Leaf("li", TextPipes), Leaf("li", TextHome)>>)

\* documents with nested elements, lists, tables and images
NestedDocs ==
    {<<WrapperDiv>>, <<WrapperDiv, PLong>>, <<PLong, WrapperDiv>>, <<WrapperSection>>,
     <<Elem("div", {}, <<H1A, PLong>>)>>, <<Elem("div", {}, <<PX, PY>>)>>,
     <<ListOfTwo("ul"), ListOfTwo("ul")>>, <<ListOfTwo("ol")>>,
     <<Leaf("table", TextStrong), Leaf("span", TextPipes)>>,
     <<Leaf("h1", TextProducts), ImgRel, ImgAbs, ImgNoSrc>>,
     <<LeafOfClass("div", {"navbar"}, TextStrong)>>}

Docs == FlatDocs \cup StructuredDocs \cup NestedDocs \cup {HeadingFixture}

\* the pages the documents are of
PageUrls == {Abs(OA, PAbout), Abs(OB, <<>>)}

ExtractInit ==
    /\ site = "small"
    /\ CrawlIdle
    /\ xpc = "extract"
    /\ ProbeIdle
    /\ dom \in Docs
    /\ pageUrl \in PageUrls
    /\ pageSections = <<>>
    /\ exactSections = <<>>
    /\ exactContent = [content |-> <<>>, finalContent |-> <<>>]
    /\ pageImages = <<>>
    /\ JobsIdle

\* pageData.sections = this.extractPageSections($)
ApplyExtractPageSections ==
    /\ xpc = "extract"
    /\ pageSections' = extractPageSections(dom)
    /\ xpc' = "pageSections"
    /\ UNCHANGED <<crawlVars, jobVars, probeVars, extractInputs, exactSections, exactContent,
                   pageImages>>

\* pageData.sections = this.createSectionsFromExactContent($)
ApplyCreateSections ==
    /\ xpc = "extract"
    /\ exactSections' = createSectionsFromExactContent(dom)
    /\ xpc' = "exactSections"
    /\ UNCHANGED <<crawlVars, jobVars, probeVars, extractInputs, pageSections, exactContent,
                   pageImages>>

\* pageData.completeContent = this.extractExactContentInOrder($, url)
ApplyExtractExactContent ==
    /\ xpc = "extract"
    /\ exactContent' = extractExactContentInOrder(dom, pageUrl)
    /\ xpc' = "exactContent"
    /\ UNCHANGED <<crawlVars, jobVars, probeVars, extractInputs, pageSections, exactSections,
                   pageImages>>

\* pageData.images = this.extractImages($, url)
ApplyExtractImages ==
    /\ xpc = "extract"
    /\ pageImages' = extractImages(dom, pageUrl)
    /\ xpc' = "pageImages"
    /\ UNCHANGED <<crawlVars, jobVars, probeVars, extractInputs, pageSections, exactSections,
                   exactContent>>

ExtractNext ==
    \/ ApplyExtractPageSections
    \/ ApplyCreateSections
    \/ ApplyExtractExactContent
    \/ ApplyExtractImages

ExtractSpec == ExtractInit /\ [][ExtractNext]_vars

\* ------------------------------------------------------------------- C17
\* the positions of a section list are unique, and a section with a smaller
\* position does not start later in the document
PositionsInDocumentOrder(list) ==
    \A a, b \in 1..Len(list) :
        /\ a # b => list[a].position # list[b].position
        /\ list[a].position < list[b].position => list[a].at <= list[b].at

\* C17: in the output of extractPageSections and of
\* createSectionsFromExactContent the section positions are unique and
\* strictly increasing in document order.
C17_PositionsFollowDocumentOrder ==
    /\ xpc = "pageSections" => PositionsInDocumentOrder(pageSections)
    /\ xpc = "exactSections" => PositionsInDocumentOrder(exactSections)


\* ------------------------------------------------------------------- C19
\* the document indexes of the headings that have a text
TitledHeadings(d) ==
    {k \in 1..Len(Elements(d)) :
        IsHeading(Elements(d)[k].el) /\ Trim(Text(Elements(d)[k].el)) # <<>>}

\* the index, among its siblings, of the first heading after the heading at
\* document index k whose level is equal or higher; past the last sibling
\* when there is none
SectionEnd(d, k) ==
    LET e == Elements(d)[k]
        sibs == SiblingsOf(d, e)
        ends == {j \in (IndexOf(e) + 1)..Len(sibs) :
                    IsHeading(sibs[j])
                        /\ HeadingLevel(sibs[j].tag) <= HeadingLevel(e.el.tag)}
    IN  IF ends = {} THEN Len(sibs) + 1
        ELSE CHOOSE j \in ends : \A x \in ends : j <= x

\* the text of the siblings that follow the heading at document index k, up
\* to the end of its section, keeping the texts longer than minLength, one to
\* a line
FollowingText(d, k, minLength) ==
    LET e == Elements(d)[k]
        sibs == SiblingsOf(d, e)
        first == IndexOf(e) + 1
        last == SectionEnd(d, k) - 1
        lines == [n \in 1..(last - first + 1) |->
                    LET text == Trim(Text(sibs[first + n - 1]))
                    IN  IF Len(text) > minLength THEN text \o <<"\n">> ELSE <<>>]
    IN  Trim(Concat(lines))

HeadingSectionsOf(list) ==
    {n \in 1..Len(list) : list[n].type = "heading"}

\* every titled heading has exactly one section, titled with its text, with
\* the following text as its body, at the position of its rank among the
\* headings
HeadingsGiveSections(d, list, minLength) ==
    /\ \A n \in HeadingSectionsOf(list) : list[n].at \in TitledHeadings(d)
    /\ \A k \in TitledHeadings(d) :
          /\ Cardinality({n \in HeadingSectionsOf(list) : list[n].at = k}) = 1
          /\ \A n \in HeadingSectionsOf(list) :
                list[n].at = k =>
                    /\ list[n].title = Trim(Text(Elements(d)[k].el))
                    /\ list[n].content = FollowingText(d, k, minLength)
                    /\ list[n].position = Cardinality({h \in TitledHeadings(d) : h < k})

\* the fixture's result: sections "A" and "B" with bodies "x" and "y" at
\* positions 0 and 1
FixtureSections(list) ==
    /\ Len(list) = 2
    /\ list[1].title = TextA /\ list[1].content = TextX /\ list[1].position = 0
    /\ list[2].title = TextB /\ list[2].content = TextY /\ list[2].position = 1

MainTitledHeadings(d) ==
    LET m == MainIndexFrom(d, 1)
    IN  IF m = 0 THEN {}
        ELSE {k \in TitledHeadings(d) :
                /\ Elements(d)[k].top = Elements(d)[m].top
                /\ Elements(d)[k].sub > 0
                /\ \A word \in {<<"a", "b", "o", "u", "t", " ", "u", "s">>,
                                <<"q", "u", "i", "c", "k", " ", "l", "i", "n", "k", "s">>} :
                      ~Includes(ToLowerCase(Trim(Text(Elements(d)[k].el))), word)}

FooterSectionsOf(list) == {n \in 1..Len(list) : list[n].title = FooterTitle}

\* the first footer element of the document (its children), <<>> without one
FooterBlocks(d) ==
    LET k == FirstIndex({x \in 1..Len(Elements(d)) : IsFooterElement(d, Elements(d)[x])})
    IN  IF k = 0 THEN <<>> ELSE Elements(d)[k].el.kids

\* the block has text that resembles copyright or contact information
ResemblesCopyrightOrContact(block) ==
    \E mark \in {<<CopyrightSign>>, <<"@">>, <<"+", "9", "1">>,
                 <<"c", "o", "p", "y", "r", "i", "g", "h", "t">>} :
        Includes(Text(block), mark)

\* the texts of the p and div blocks of the footer that resemble copyright or
\* contact information and have no link in them, separated by a space
KeptFooterText(d) ==
    LET blocks == FooterBlocks(d)
        kept == [n \in 1..Len(blocks) |->
                    IF blocks[n].tag \in {"p", "div"} /\ blocks[n].links = <<>>
                          /\ ResemblesCopyrightOrContact(blocks[n])
                    THEN Trim(Text(blocks[n])) \o <<" ">>
                    ELSE <<>>]
    IN  CollapseSpaces(Trim(Concat(kept)))

NoFollowingContent(d, k) ==
    LET e == Elements(d)[k]
        sibs == SiblingsOf(d, e)
    IN  \A j \in (IndexOf(e) + 1)..(SectionEnd(d, k) - 1) : Trim(Text(sibs[j])) = <<>>

\* C21: every heading with non-empty text produces a section, and a heading
\* with no following content before the next heading produces a section
\* whose content is the non-empty "no content found" marker, never an empty
\* string, in extractMainContent and in createSectionsFromExactContent.
C21_HeadingWithoutContentHasMarker ==
    /\ xpc = "exactSections" =>
          /\ \A k \in TitledHeadings(dom) :
                \E n \in HeadingSectionsOf(exactSections) : exactSections[n].at = k
          /\ \A n \in HeadingSectionsOf(exactSections) :
                /\ exactSections[n].content # <<>>
                /\ NoFollowingContent(dom, exactSections[n].at)
                      => exactSections[n].content = NoContentMarker
    /\ xpc = "pageSections" =>
          /\ \A k \in MainTitledHeadings(dom) :
                \E n \in HeadingSectionsOf(pageSections) : pageSections[n].at = k
          /\ \A n \in HeadingSectionsOf(pageSections) :
                /\ pageSections[n].content # <<>>
                /\ NoFollowingContent(dom, pageSections[n].at)
                      => pageSections[n].content = NoContentMarker


\* ------------------------------------------------------------------- C22
\* the blocks of the content array that carry the text
BlocksWith(content, text) == {n \in 1..Len(content) : Includes(content[n], text)}

\* C22: exact-order extraction emits each piece of text once: the text of an
\* element (longer than 20 characters) is in at most one block of the
\* content, also when it is reachable through a wrapper div and through its
\* child paragraph.
C22_EachTextEmittedOnce ==
    xpc = "exactContent" =>
        \A k \in 1..Len(Elements(dom)) :
            LET text == Trim(Text(Elements(dom)[k].el))
            IN  Len(text) > 20 => Cardinality(BlocksWith(exactContent.content, text)) <= 1


\* ------------------------------------------------------------------- C23
\* the top-level call has the four candidates in their order
CandidatesInFixedOrder ==
    \A n \in 1..Len(stack) :
        (~stack[n].ind /\ stack[n].st \in {"loop", "children"}) =>
            stack[n].cands = <<Abs(baseUrl, PSitemap), Abs(baseUrl, PSitemapIndex),
                               Abs(baseUrl, PSitemapDashIndex), Abs(baseUrl, PSitemaps)>>

\* the step is the request of the current candidate of the running call
CandidateRequest ==
    /\ pc = "parseSitemap" /\ stack # <<>>
    /\ Top.st = "loop" /\ Top.i <= Len(Top.cands)
    /\ stack' # stack

\* the running call after the step
TopAfter == stack'[Len(stack)]

\* the call goes on with its next candidate
MovesOn == TopAfter.st = "loop" /\ TopAfter.i = Top.i + 1

\* the call leaves the candidate loop
StopsAtCandidate == TopAfter.st \in {"children", "ret"} /\ TopAfter.i = Top.i

\* a call that left its candidate loop requests no candidate any more
NoRequestAfterStop ==
    \A n \in 1..Min(Len(stack), Len(stack')) :
        stack[n].st \in {"children", "ret"} =>
            stack'[n].st \in {"children", "ret"} /\ stack'[n].i = stack[n].i

\* the document of the candidate has a <sitemap> entry, or a <url> entry that
\* passes shouldCrawlUrl
YieldsEntry(cand) ==
    LET sitemapDoc == SitemapDoc(site, Href(cand))
    IN  \/ \E n \in 1..Len(sitemapDoc.sitemap) : sitemapDoc.sitemap[n] # EmptyStr
        \/ \E n \in 1..Len(sitemapDoc.url) :
              sitemapDoc.url[n] # EmptyStr /\ shouldCrawlUrl(sitemapDoc.url[n], baseUrl)

\* C23: the resolver tries sitemap.xml, sitemap_index.xml, sitemap-index.xml
\* and sitemaps.xml in this order, moves on to the next candidate when the
\* current one fails to fetch or parse, and stops at the first candidate that
\* was fetched and parsed; no later candidate is requested after that.
C23_StopsAtFirstParsedCandidate ==
    /\ []CandidatesInFixedOrder
    /\ [][/\ NoRequestAfterStop
          /\ CandidateRequest =>
                /\ TopAfter.response = "error" => MovesOn
                /\ TopAfter.response = "document" => StopsAtCandidate]_vars

\* C23 as amended: the resolver tries the four candidates in the fixed order,
\* moves on to the next candidate when the current one fails to fetch or
\* its document yields no entry (no <sitemap> location and no <url> location
\* that passes shouldCrawlUrl), and stops at the first candidate whose
\* document yields an entry; no later candidate is requested after that.
C23_StopsAtFirstCandidateWithEntries ==
    /\ []CandidatesInFixedOrder
    /\ [][/\ NoRequestAfterStop
          /\ CandidateRequest =>
                /\ MovesOn \/ StopsAtCandidate
                /\ TopAfter.response = "error" => MovesOn
                /\ (TopAfter.response = "document" /\ ~Top.ind) =>
                      (StopsAtCandidate <=> YieldsEntry(Top.cands[Top.i]))]_vars

\* C23 witness: sitemap.xml failed, sitemap_index.xml gave a document whose
\* only <url> entry is of another origin, and the resolver is about to
\* request sitemap-index.xml.
C23_Witness ==
    /\ pc = "parseSitemap"
    /\ Len(stack) = 1
    /\ ~Top.ind
    /\ Top.st = "loop"
    /\ Top.i = 3
    /\ Top.response = "document"
    /\ Top.cands[3] = Abs(baseUrl, PSitemapDashIndex)


\* ------------------------------------------------------------------- C24
\* C24: the depth counter is balanced: a parseSitemap call finds at its
\* return the value the counter had at its entry (0 for the top-level call,
\* 1 for the call of a child sitemap), also after children failed, so the
\* counter is 0 whenever the run is outside the resolver; an index resolves
\* at most 5 child sitemaps.
C24_DepthBalancedAtMostFiveChildren ==
    /\ pc # "parseSitemap" => sitemapDepth = 0
    /\ (pc = "parseSitemap" /\ Top.st \in {"enter", "ret"}) =>
          sitemapDepth = Len(stack) - 1
    /\ \A n \in 1..Len(stack) :
          stack[n].st = "children" =>
              /\ Len(stack[n].kids) <= 5
              /\ stack[n].j <= Len(stack[n].kids) + 1
              /\ sitemapDepth >= 1

\* C24 witness: the index sitemap_index.xml with six non-empty entries has
\* resolved five children, of which /c3.xml and the unparsable entry failed,
\* and returns with the counter at 0.
C24_Witness ==
    /\ pc = "parseSitemap"
    /\ site = "small"
    /\ Len(stack) = 1
    /\ Top.st = "ret"
    /\ Top.response = "document"
    /\ Len(Top.kids) = 5
    /\ Top.kids[4] = Abs(OA, PC3) /\ Top.kids[5] = BadStr
    /\ Top.ret # <<>>
    /\ sitemapDepth = 0


\* ------------------------------------------------------------------- C25
\* C25: a page is a success exactly when its request ended with a 2xx or 3xx
\* status, and its result then carries that status; a response with another
\* status gives a degraded result with the status of the response, no
\* response at all (network error, timeout) a degraded result with status 0;
\* no page outcome makes the run throw.
C25_FailureCarriesBestKnownStatus ==
    /\ Len(Results) = Len(fetchLog)
    /\ \A n \in 1..Len(fetchLog) :
          LET outcome == fetchLog[n].outcome
              result == Results[n]
              accepted == outcome.kind = "response" /\ outcome.status \in 200..399
          IN  /\ ~result.failed <=> accepted
              /\ accepted => result.statusCode = outcome.status
              /\ (outcome.kind = "response" /\ ~accepted) =>
                    result.statusCode = outcome.status
              /\ outcome.kind = "network" => result.statusCode = 0
    /\ pc = "threw" => fetchLog = <<>>

\* C25 witness: a finished run with a page that was redirected (301) and is
\* a success, and a page that got no response and has status 0.
C25_Witness ==
    /\ Done
    /\ \E m, n \in 1..Len(fetchLog) :
          /\ fetchLog[m].outcome = Response(301)
          /\ ~output[m].failed /\ output[m].statusCode = 301
          /\ fetchLog[n].outcome = NoResponse
          /\ output[n].failed /\ output[n].statusCode = 0


\* ------------------------------------------------------------------- C27
\* C27: every url of the list the resolver returned has passed
\* shouldCrawlUrl, also when a child sitemap document has <sitemap> entries
\* of its own, and the sitemap-driven loop fetches no page of another origin
\* and no .xml document.
C27_ResolverListPassesFilter ==
    /\ \A u \in {sitemapPages[n] : n \in 1..Len(sitemapPages)} :
          shouldCrawlUrl(u, baseUrl)
    /\ SitemapDriven =>
          \A n \in 1..Len(fetchLog) :
              /\ Origin(fetchLog[n].url) = baseUrl
              /\ ~EndsWith(ToLowerCase(Pathname(fetchLog[n].url)), <<".", "x", "m", "l">>)


\* ------------------------------------------------------------------- C28
\* C28: in a sitemap-driven run of crawlWebsiteWithRealTimeUpdates the k-th
\* invocation of the callback gets processedCount = k and totalFound =
\* min(number of sitemap urls, maxPages); the count grows by one with every
\* page, degraded pages included, never exceeds totalFound, and is the
\* length of the result list at the time of the call.
C28_CallbackCounts ==
    (caller = "realtime" /\ hasCallback /\ SitemapDriven) =>
        /\ processedCount = Len(processedPages)
        /\ Len(cbLog) = processedCount - (IF pc = "callback" THEN 1 ELSE 0)
        /\ \A k \in 1..Len(cbLog) :
              /\ cbLog[k].processedCount = k
              /\ cbLog[k].totalFound = Min(Len(sitemapPages), maxPages)
              /\ cbLog[k].processedCount <= cbLog[k].totalFound
              /\ cbLog[k].at = k
              /\ cbLog[k].page = processedPages[k]

\* C28 witness: a finished run over the first two of more than two sitemap
\* urls whose second page was degraded: the second invocation got the
\* degraded page with processedCount 2 and totalFound 2.
C28_Witness ==
    /\ Done
    /\ caller = "realtime" /\ hasCallback
    /\ maxPages = 2
    /\ Len(sitemapPages) > 2
    /\ Len(cbLog) = 2
    /\ cbLog[2].page.failed
    /\ cbLog[2].processedCount = 2
    /\ cbLog[2].totalFound = 2
    /\ output = processedPages


\* ------------------------------------------------------------------- C29
\* the images of the document that have a src, in document order
ImagesWithSrc(d) ==
    SelectSeq(Elements(d), LAMBDA e : e.el.tag = "img" /\ e.el.src.k # "empty")

\* the src of the image resolved against the url of the page
ResolvedSrc(img, url) ==
    IF img.src.k = "abs" THEN Href(img.src)
    ELSE Href(AbsH(Origin(url), img.src.p, img.src.h))

\* the start of the inline token of an image: the picture sign and its alt
TokenStart(img) ==
    <<PictureSign, " ">> \o (IF img.alt # <<>> THEN img.alt ELSE <<"I", "m", "a", "g", "e">>)
        \o <<":", " ">>

\* C29: every image reference emitted for a page is the src of the image
\* resolved against the url of the page: PageImage.src of extractImages, and
\* the url of every inline image token in the content of a section.
C29_ImageSrcResolvedAgainstPage ==
    /\ xpc = "pageImages" =>
          /\ Len(pageImages) = Len(ImagesWithSrc(dom))
          /\ \A n \in 1..Len(pageImages) :
                pageImages[n].src = ResolvedSrc(ImagesWithSrc(dom)[n].el, pageUrl)
    /\ xpc = "pageSections" =>
          \A n \in 1..Len(pageSections), m \in 1..Len(ImagesWithSrc(dom)) :
              LET img == ImagesWithSrc(dom)[m].el
              IN  Includes(pageSections[n].content, TokenStart(img)) =>
                      Includes(pageSections[n].content,
                               TokenStart(img) \o UrlChars(ResolvedSrc(img, pageUrl)))


\* ------------------------------------------------ processAnalysisJob(jobId)
\* Two jobs created through POST /api/analysis/start run side by side; each
\* step below is the code between two awaits of one job.  The database
\* stays reachable: a write of a job row is stored, a write of a page row
\* can be rejected for the data it carries.  Every page request of a job is
\* answered with status 200.
JobIds == {1, 2}

\* bound: job.maxPages of the jobs created
JobMaxPages == 2

JobSeeds == {Abs(OA, PRoot), Abs(OB, PRoot)}

\* the row createAnalysisJob stores: the column defaults and the request's
\* websiteUrl, glmApiKey (set or not), sheetsId with serviceAccountJson
NewJob(url, glm, sheets) ==
    [status |-> "pending", progress |-> 0, websiteUrl |-> url,
     maxPages |-> JobMaxPages, glmApiKey |-> glm, sheetsId |-> sheets,
     totalPages |-> 0, processedPages |-> 0]

\* the field initialisers of class WebsiteCrawler
NewCrawler == [visited |-> {}, baseUrl |-> "", sitemapDepth |-> 0]

\* one crawler object serving every job
SharedCrawler(job) == 1

\* const crawler = new WebsiteCrawler(): the instance a job works with
CrawlerOf(job) == job

\* the locals of a job: sitemap is what the site answered to the sitemap
\* request, n the position of the loops of processAnalysisJob; met is
\* history: the crawl of another job was under way during the job's crawl
NewRun ==
    [sitemap |-> "unasked", sitemapPages |-> <<>>, pagesToProcess |-> <<>>,
     idx |-> 1, processedPages |-> <<>>, toVisit |-> <<>>, pages |-> <<>>,
     currentUrl |-> EmptyStr, result |-> <<>>, n |-> 1, processedCount |-> 0,
     met |-> FALSE]

\* the positions of a job inside crawler.crawlWebsite
CrawlPcs == {"sitemap", "child", "sitemapLoop", "fallback", "fetch"}

\* the <url> entries of the child sitemap of the site at origin o
JobChildUrls(o) == <<Abs(o, P1), Abs(OA, P2), Abs(OB, P2), Abs(o, PPdf)>>

\* the links of the page at u: both sites hold the same pages
JobPageLinks(u) == PageLinks([Href(u) EXCEPT !.o = OA])

\* what detectTechnologies comes to
DetectorOutcomes == {"technologies", "throws"}

\* what the analysis of one stored page comes to: a summary that is stored,
\* the text analyzePageContent returns from its own catch block, or an
\* update of the page row that is rejected
AnalysisOutcomes == {"summary", "analysisFailed", "rejected"}

JobsInit ==
    /\ site = "small"
    /\ CrawlIdle
    /\ xpc = "jobs"
    /\ ProbeIdle
    /\ ExtractIdle
    /\ jobs \in [JobIds -> {NewJob(u, g, s) : u \in JobSeeds, g \in BOOLEAN, s \in BOOLEAN}]
    /\ jobs[1].websiteUrl = Abs(OA, PRoot)
    /\ jobPc = [j \in JobIds |-> "pending"]
    /\ crawlers = [c \in JobIds |-> NewCrawler]
    /\ run = [j \in JobIds |-> NewRun]
    /\ discoveredPages = [j \in JobIds |-> <<>>]
    /\ jobLog = [j \in JobIds |-> {}]

notJobVars == <<crawlVars, xpc, probeVars, extractVars>>

\* the outer catch block: the job is marked failed
JobCatch(j, what) ==
    /\ jobs' = [jobs EXCEPT ![j].status = "failed"]
    /\ jobPc' = [jobPc EXCEPT ![j] = "end"]
    /\ jobLog' = [jobLog EXCEPT ![j] = @ \cup {what}]

\* the job is found and marked running
JobStart(j) ==
    /\ jobPc[j] = "pending"
    /\ jobs' = [jobs EXCEPT ![j].status = "running", ![j].progress = 10]
    /\ jobPc' = [jobPc EXCEPT ![j] = "detect"]
    /\ UNCHANGED <<notJobVars, crawlers, run, discoveredPages, jobLog>>

\* Step 1: detectTechnologies, then progress 25
JobDetect(j) ==
    /\ jobPc[j] = "detect"
    /\ \E o \in DetectorOutcomes :
         IF o = "technologies"
         THEN /\ jobs' = [jobs EXCEPT ![j].progress = 25]
              /\ jobPc' = [jobPc EXCEPT ![j] = "crawl"]
              /\ UNCHANGED jobLog
         ELSE JobCatch(j, "detect")
    /\ UNCHANGED <<notJobVars, crawlers, run, discoveredPages>>

\* Step 2: new WebsiteCrawler(), the head of crawlWebsite and of the
\* top-level parseSitemap call, up to the first sitemap request
JobBeginCrawl(j) ==
    /\ jobPc[j] = "crawl"
    /\ LET u == jobs[j].websiteUrl
       IN  /\ crawlers' = [crawlers EXCEPT ![CrawlerOf(j)] =
                              [visited |-> {}, baseUrl |-> Origin(u), sitemapDepth |-> 0]]
           /\ run' = [k \in JobIds |->
                         IF k = j
                         THEN [run[j] EXCEPT
                                 !.pages = <<>>, !.toVisit = <<u>>,
                                 !.met = \E m \in JobIds \ {j} : jobPc[m] \in CrawlPcs]
                         ELSE [run[k] EXCEPT !.met = @ \/ jobPc[k] \in CrawlPcs]]
    /\ jobPc' = [jobPc EXCEPT ![j] = "sitemap"]
    /\ UNCHANGED <<notJobVars, jobs, discoveredPages, jobLog>>

\* the sitemap requests of the top-level call are answered: no candidate
\* gives a document, or /sitemap.xml is an index of one child sitemap; the
\* child call returns at once when the depth guard holds
JobSitemapFetched(j) ==
    /\ jobPc[j] = "sitemap"
    /\ \E kind \in {"absent", "index"} :
         LET c == CrawlerOf(j)
             depth == crawlers[c].sitemapDepth + 1
         IN  /\ run' = [run EXCEPT ![j].sitemap = kind]
             /\ IF kind = "index" /\ ~DepthExceeded(depth)
                THEN /\ crawlers' = [crawlers EXCEPT ![c].sitemapDepth = depth]
                     /\ jobPc' = [jobPc EXCEPT ![j] = "child"]
                ELSE /\ UNCHANGED crawlers
                     /\ jobPc' = [jobPc EXCEPT ![j] = "fallback"]
    /\ UNCHANGED <<notJobVars, jobs, discoveredPages, jobLog>>

\* the child sitemap is answered: its entries are filtered, the child call
\* and the top-level call return
JobChildFetched(j) ==
    /\ jobPc[j] = "child"
    /\ LET c == CrawlerOf(j)
           urls == CollectUrls(Doc(<<>>, JobChildUrls(Origin(jobs[j].websiteUrl))),
                               crawlers[c].baseUrl)
       IN  /\ crawlers' = [crawlers EXCEPT ![c].sitemapDepth = @ - 1]
           /\ run' = [run EXCEPT ![j].sitemapPages = urls,
                                 ![j].pagesToProcess = Slice(urls, jobs[j].maxPages)]
           /\ jobPc' = [jobPc EXCEPT ![j] = IF Len(urls) > 0 THEN "sitemapLoop"
                                            ELSE "fallback"]
    /\ UNCHANGED <<notJobVars, jobs, discoveredPages, jobLog>>

\* one iteration of the for-loop over pagesToProcess
JobSitemapPage(j) ==
    /\ jobPc[j] = "sitemapLoop"
    /\ run[j].idx <= Len(run[j].pagesToProcess)
    /\ run' = [run EXCEPT
                 ![j].processedPages =
                     PushResult(@, run[j].pagesToProcess[run[j].idx], Response(200)),
                 ![j].idx = @ + 1]
    /\ UNCHANGED <<notJobVars, jobs, jobPc, crawlers, discoveredPages, jobLog>>

\* return processedPages
JobSitemapLoopDone(j) ==
    /\ jobPc[j] = "sitemapLoop"
    /\ run[j].idx > Len(run[j].pagesToProcess)
    /\ run' = [run EXCEPT ![j].result = run[j].processedPages]
    /\ jobPc' = [jobPc EXCEPT ![j] = "save"]
    /\ UNCHANGED <<notJobVars, jobs, crawlers, discoveredPages, jobLog>>

\* the while condition of the fallback crawl of a job
JobFallbackContinues(j) ==
    Len(run[j].toVisit) > 0 /\ Len(run[j].pages) < jobs[j].maxPages

\* toVisit.shift(), the visited test, and the page request
JobFallbackShift(j) ==
    /\ jobPc[j] = "fallback"
    /\ JobFallbackContinues(j)
    /\ LET c == CrawlerOf(j)
           currentUrl == Dequeue(run[j].toVisit)[1]
           rest == Dequeue(run[j].toVisit)[2]
       IN  IF currentUrl \in crawlers[c].visited
           THEN /\ run' = [run EXCEPT ![j].toVisit = rest]
                /\ UNCHANGED <<crawlers, jobPc>>
           ELSE /\ run' = [run EXCEPT ![j].toVisit = rest, ![j].currentUrl = currentUrl]
                /\ crawlers' = [crawlers EXCEPT ![c].visited = @ \cup {currentUrl}]
                /\ jobPc' = [jobPc EXCEPT ![j] = "fetch"]
    /\ UNCHANGED <<notJobVars, jobs, discoveredPages, jobLog>>

\* the page is answered: push its result and its links
JobFallbackFetched(j) ==
    /\ jobPc[j] = "fetch"
    /\ LET c == CrawlerOf(j)
           currentUrl == run[j].currentUrl
           found == LinksToPush(JobPageLinks(currentUrl), currentUrl, crawlers[c].baseUrl)
       IN  run' = [run EXCEPT ![j].pages = PushResult(@, currentUrl, Response(200)),
                              ![j].toVisit = @ \o found]
    /\ jobPc' = [jobPc EXCEPT ![j] = "fallback"]
    /\ UNCHANGED <<notJobVars, jobs, crawlers, discoveredPages, jobLog>>

\* return pages
JobFallbackDone(j) ==
    /\ jobPc[j] = "fallback"
    /\ ~JobFallbackContinues(j)
    /\ run' = [run EXCEPT ![j].result = run[j].pages]
    /\ jobPc' = [jobPc EXCEPT ![j] = "save"]
    /\ UNCHANGED <<notJobVars, jobs, crawlers, discoveredPages, jobLog>>

\* createDiscoveredPage for the next page of the crawl
JobSavePage(j) ==
    /\ jobPc[j] = "save"
    /\ run[j].n <= Len(run[j].result)
    /\ \E stored \in BOOLEAN :
         IF stored
         THEN /\ discoveredPages' =
                    [discoveredPages EXCEPT ![j] =
                        Append(@, [url |-> run[j].result[run[j].n].url,
                                   analysisStatus |-> "completed"])]
              /\ run' = [run EXCEPT ![j].n = @ + 1]
              /\ UNCHANGED <<jobs, jobPc, jobLog>>
         ELSE /\ JobCatch(j, "persist")
              /\ UNCHANGED <<discoveredPages, run>>
    /\ UNCHANGED <<notJobVars, crawlers>>

\* totalPages and progress 50; Step 3 runs when the job has a glmApiKey
JobPagesSaved(j) ==
    /\ jobPc[j] = "save"
    /\ run[j].n > Len(run[j].result)
    /\ jobs' = [jobs EXCEPT ![j].totalPages = Len(run[j].result), ![j].progress = 50]
    /\ run' = [run EXCEPT ![j].n = 1]
    /\ jobPc' = [jobPc EXCEPT ![j] = IF jobs[j].glmApiKey THEN "analyze" ELSE "export"]
    /\ UNCHANGED <<notJobVars, crawlers, discoveredPages, jobLog>>

\* const progress = 50 + Math.floor((processedCount / jobPages.length) * 40)
AnalysisProgress(count, total) == 50 + ((count * 40) \div total)

\* Step 3: one iteration of the loop over the stored pages, with its catch
JobAnalyzePage(j) ==
    /\ jobPc[j] = "analyze"
    /\ run[j].n <= Len(discoveredPages[j])
    /\ \E o \in AnalysisOutcomes :
         IF o = "rejected"
         THEN /\ discoveredPages' =
                    [discoveredPages EXCEPT ![j][run[j].n].analysisStatus = "failed"]
              /\ run' = [run EXCEPT ![j].n = @ + 1]
              /\ jobLog' = [jobLog EXCEPT ![j] = @ \cup {"analysis"}]
              /\ UNCHANGED jobs
         ELSE LET count == run[j].processedCount + 1
              IN  /\ discoveredPages' =
                        [discoveredPages EXCEPT ![j][run[j].n].analysisStatus = "completed"]
                  /\ run' = [run EXCEPT ![j].n = @ + 1,
                                        ![j].processedCount = count]
                  /\ jobs' = [jobs EXCEPT
                                ![j].processedPages = count,
                                ![j].progress =
                                    AnalysisProgress(count, Len(discoveredPages[j]))]
                  /\ jobLog' = [jobLog EXCEPT ![j] =
                                   IF o = "analysisFailed" THEN @ \cup {"analysis"} ELSE @]
    /\ UNCHANGED <<notJobVars, jobPc, crawlers>>

\* the loop over the stored pages is over
JobAnalysisDone(j) ==
    /\ jobPc[j] = "analyze"
    /\ run[j].n > Len(discoveredPages[j])
    /\ jobPc' = [jobPc EXCEPT ![j] = "export"]
    /\ UNCHANGED <<notJobVars, jobs, crawlers, run, discoveredPages, jobLog>>

\* an export error that leaves the try block of Step 4
SheetsCatchRethrows(j) == JobCatch(j, "export")

\* the catch block of Step 4: log and continue
SheetsCatch(j) ==
    /\ jobPc' = [jobPc EXCEPT ![j] = "complete"]
    /\ jobLog' = [jobLog EXCEPT ![j] = @ \cup {"export"}]
    /\ UNCHANGED jobs

\* Step 4: exportToSheets when the job has a sheetsId and a service account
JobExport(j) ==
    /\ jobPc[j] = "export"
    /\ IF jobs[j].sheetsId
       THEN \E exported \in BOOLEAN :
              IF exported
              THEN /\ jobs' = [jobs EXCEPT ![j].progress = 100]
                   /\ jobPc' = [jobPc EXCEPT ![j] = "complete"]
                   /\ UNCHANGED jobLog
              ELSE SheetsCatch(j)
       ELSE /\ jobPc' = [jobPc EXCEPT ![j] = "complete"]
            /\ UNCHANGED <<jobs, jobLog>>
    /\ UNCHANGED <<notJobVars, crawlers, run, discoveredPages>>

\* the job is marked completed
JobComplete(j) ==
    /\ jobPc[j] = "complete"
    /\ jobs' = [jobs EXCEPT ![j].status = "completed", ![j].progress = 100]
    /\ jobPc' = [jobPc EXCEPT ![j] = "end"]
    /\ UNCHANGED <<notJobVars, crawlers, run, discoveredPages, jobLog>>

JobsNext ==
    \E j \in JobIds :
        \/ JobStart(j)
        \/ JobDetect(j)
        \/ JobBeginCrawl(j)
        \/ JobSitemapFetched(j)
        \/ JobChildFetched(j)
        \/ JobSitemapPage(j)
        \/ JobSitemapLoopDone(j)
        \/ JobFallbackShift(j)
        \/ JobFallbackFetched(j)
        \/ JobFallbackDone(j)
        \/ JobSavePage(j)
        \/ JobPagesSaved(j)
        \/ JobAnalyzePage(j)
        \/ JobAnalysisDone(j)
        \/ JobExport(j)
        \/ JobComplete(j)

JobsSpec == JobsInit /\ [][JobsNext]_vars


\* ------------------------------------------------------------------- C30
\* the moves of a job's status: none, pending to running, running to
\* completed or failed
StatusMoves(j) ==
    \/ jobs'[j].status = jobs[j].status
    \/ jobs[j].status = "pending" /\ jobs'[j].status = "running"
    \/ jobs[j].status = "running" /\ jobs'[j].status \in {"completed", "failed"}

\* errors of technology detection, crawling and page persistence
FatalErrors == {"detect", "crawl", "persist"}

\* a job whose processing is over is completed with progress 100 unless a
\* fatal error was raised, and failed when one was
EndsAsItShould(j) ==
    jobPc[j] = "end" =>
        IF jobLog[j] \cap FatalErrors = {}
        THEN jobs[j].status = "completed" /\ jobs[j].progress = 100
        ELSE jobs[j].status = "failed"

RECURSIVE FallbackAlone(_, _, _, _, _)
FallbackAlone(queue, seen, list, base, max) ==
    IF Len(queue) = 0 \/ Len(list) >= max THEN list
    ELSE LET u == Head(queue)
         IN  IF u \in seen
             THEN FallbackAlone(Tail(queue), seen, list, base, max)
             ELSE FallbackAlone(Tail(queue) \o LinksToPush(JobPageLinks(u), u, base),
                                seen \cup {u}, PushResult(list, u, Response(200)),
                                base, max)

\* what crawlWebsite returns for a seed when no other run is under way, on
\* a site whose sitemap request was answered as given
RunAlone(seed, sitemap, max) ==
    LET base == Origin(seed)
        urls == IF sitemap = "index"
                THEN CollectUrls(Doc(<<>>, JobChildUrls(base)), base)
                ELSE <<>>
        chosen == Slice(urls, max)
    IN  IF Len(urls) > 0
        THEN [n \in 1..Len(chosen) |-> PageFor(chosen[n], Response(200))]
        ELSE FallbackAlone(<<seed>>, {}, <<>>, base, max)

\* the crawlWebsite call of the job has returned
CrawlReturned(j) ==
    \/ jobPc[j] \in {"save", "analyze", "export", "complete"}
    \/ jobPc[j] = "end" /\ "detect" \notin jobLog[j]

\* the fields of the job's crawler are those of a run that has just begun
RunStartsClean(j) ==
    jobPc[j] = "sitemap" =>
        crawlers[CrawlerOf(j)] =
            [visited |-> {}, baseUrl |-> Origin(jobs[j].websiteUrl), sitemapDepth |-> 0]

\* C26: when the run of a job has begun, whatever the other job did
\* meanwhile, the visited-set of its crawler is empty, its depth counter 0
\* and its base origin that of the job's own seed; and the pages the crawl
\* of a job returns, its steps interleaved with those of the other job, are
\* the pages it returns when it runs alone.
C26_JobsCrawlAsIfAlone ==
    \A j \in DOMAIN jobPc :
        /\ RunStartsClean(j)
        /\ CrawlReturned(j) =>
              run[j].result = RunAlone(jobs[j].websiteUrl, run[j].sitemap, jobs[j].maxPages)

\* two jobs with the same seed whose crawls overlapped have both returned:
\* one went through the sitemap, the other through the fallback crawl
C26_Witness ==
    /\ jobs[1].websiteUrl = jobs[2].websiteUrl
    /\ CrawlReturned(1) /\ CrawlReturned(2)
    /\ run[1].met /\ run[2].met
    /\ run[1].sitemap = "index" /\ run[2].sitemap = "absent"
    /\ Len(run[1].result) = 2 /\ Len(run[2].result) >= 2

====
